---- MODULE Spec2Model ----
(***************************************************************************)
(* Model of the engineering-insights analysis pipeline:                    *)
(*   src/agents/pipeline.py   AgentState, DataHarvesterAgent,              *)
(*                            DiffAnalystAgent, InsightNarratorAgent,      *)
(*                            AgentOrchestrator                            *)
(*   src/core/metrics.py      MetricsCalculator.generate_performance_summary*)
(*   src/integrations/github_client.py  GitHubClient (bootstrap sync)      *)
(*                                                                         *)
(* Python values are represented as follows.  None is the record None.     *)
(* An Optional[int] is None or Some(v).  A dict is a record; the empty     *)
(* dict is EmptyDict.  A real number is an exact fraction Rat(n, d) with   *)
(* d > 0.  A list is a sequence.  The text of an error is a record         *)
(* [stage, cause] standing for the f-string "<stage> failed: <cause>".     *)
(***************************************************************************)
EXTENDS Integers, Sequences, FiniteSets, TLC

VARIABLES
    pc,          \* position of the caller inside process_request / the stage call
    state,       \* the AgentState object threaded through the stages
    stage,       \* which agent's execute() runs next (direct stage invocation)
    harvest_env, \* responses the storage / source-control collaborators gave to Harvest
    llm_env,     \* response the text-generation collaborator gave to Narrate
    calls,       \* number of times each stage / the text generator was invoked
    fault,       \* the collaborator or computation whose exception reached a stage handler
    hash_seed,   \* string hash seed of the interpreter process (fixes set iteration order)
    request      \* the arguments process_request was called with

vars == <<pc, state, stage, harvest_env, llm_env, calls, fault, hash_seed, request>>

-----------------------------------------------------------------------------
(* Bounds of the model *)

MaxRepos == 2
MaxTeams == 2
MaxCalls == 3
MaxLines == 6
MaxCommits == 2

-----------------------------------------------------------------------------
(* Python values *)

None == [none |-> TRUE]
Some(v) == [v |-> v]
EmptyDict == <<>>

\* bool(x) of an Optional[int]: None and 0 are falsy
TruthyId(x) == x # None /\ x.v # 0

\* bool(d) of an Optional[dict]: None and {} are falsy
TruthyDict(d) == d # None /\ DOMAIN d # {}

\* d.get(k, default)
Get(d, k, default) == IF k \in DOMAIN d THEN d[k] ELSE default

\* greatest common divisor, by Euclid's algorithm
GCD[a \in Nat, b \in Nat] == IF b = 0 THEN a ELSE GCD[b, a % b]

\* the fraction n / d in lowest terms
Lowest[n \in Int, d \in Nat] ==
    LET g == GCD[IF n < 0 THEN -n ELSE n, d]
    IN  IF g = 0 THEN [n |-> n, d |-> d] ELSE [n |-> n \div g, d |-> d \div g]

Rat(n, d) == Lowest[n, d]
RInt(k) == Rat(k, 1)
RAdd(a, b) == Rat(a.n * b.d + b.n * a.d, a.d * b.d)
RSub(a, b) == Rat(a.n * b.d - b.n * a.d, a.d * b.d)
RMulInt(a, k) == Rat(a.n * k, a.d)
RDivInt(a, k) == Rat(a.n, a.d * k)
RHalf(a) == Rat(a.n, a.d * 2)
RLe(a, b) == a.n * b.d <= b.n * a.d
RLt(a, b) == a.n * b.d < b.n * a.d
REq(a, b) == a.n * b.d = b.n * a.d
RGtInt(a, k) == a.n > k * a.d
RLtInt(a, k) == a.n < k * a.d
RGeInt(a, k) == a.n >= k * a.d
RMin(a, b) == IF RLe(a, b) THEN a ELSE b
RMax(a, b) == IF RLe(a, b) THEN b ELSE a

Pow10(p) == IF p = 1 THEN 10 ELSE 100

\* round(x, p): nearest multiple of 10^-p, ties to even
Round(a, p) ==
    LET s == a.n * Pow10(p)
        q == s \div a.d
        r == s % a.d
        up == \/ 2 * r > a.d
              \/ (2 * r = a.d /\ q % 2 = 1)
    IN  Rat(IF up THEN q + 1 ELSE q, Pow10(p))

RECURSIVE SumField(_, _)
\* sum(x[field] for x in xs)
SumField(xs, field) ==
    IF Len(xs) = 0 THEN 0 ELSE Head(xs)[field] + SumField(Tail(xs), field)

SeqsUpTo(S, n) == UNION {[1..k -> S] : k \in 0..n}

-----------------------------------------------------------------------------
(* AgentState and the error text *)

\* f"{stage} failed: {str(e)}"
Err(stg, cause) == [stage |-> stg, cause |-> cause]

\* AgentState(request_type, team_id, engineer_id, time_period, insights=[],
\*            narrative="", charts=[]) ; the other fields take the dataclass defaults
AgentState(team_id, engineer_id, time_period) ==
    [ request_type     |-> "weekly",
      team_id          |-> team_id,
      engineer_id      |-> engineer_id,
      time_period      |-> time_period,
      raw_data         |-> None,
      analysis_results |-> None,
      insights         |-> <<>>,
      narrative        |-> <<>>,
      charts           |-> <<>>,
      error            |-> None ]

-----------------------------------------------------------------------------
(* Metrics Engine: what the storage-backed calculators computed for a scope *)

MockReview ==
    [ avg_review_time_hours     |-> Rat(17, 2),
      review_participation_rate |-> RInt(85),
      pr_cycle_time_hours       |-> RInt(24),
      approval_rate             |-> RInt(92) ]

NoReview ==
    [ avg_review_time_hours     |-> RInt(0),
      review_participation_rate |-> RInt(0),
      pr_cycle_time_hours       |-> RInt(0),
      approval_rate             |-> RInt(0) ]

\* calculate_review_metrics without the early return for a scope without pull requests
ReviewMetricsAlwaysMock(prs) == MockReview

\* calculate_review_metrics: zeros without pull requests, else the mock values
calculate_review_metrics(prs) == IF prs = 0 THEN NoReview ELSE MockReview

\* what storage holds for three scopes (an active one, an idle one, a risky one):
\* the commit rows and the number of pull requests in the window, and the
\* figures the DORA calculators derive from its deployments and incidents
StoredScopes ==
    { [ commits |-> [i \in 1..14 |-> [additions |-> 60, deletions |-> 40, changed_files |-> 1]],
        prs |-> 3, lead_time_days |-> RInt(2), successful_deployments |-> 7,
        change_failure_rate |-> RInt(5), mttr_hours |-> RInt(4) ],
      [ commits |-> <<>>,
        prs |-> 0, lead_time_days |-> RInt(0), successful_deployments |-> 0,
        change_failure_rate |-> RInt(0), mttr_hours |-> RInt(0) ],
      [ commits |-> << [additions |-> 250, deletions |-> 150, changed_files |-> 3],
                       [additions |-> 250, deletions |-> 150, changed_files |-> 2] >>,
        prs |-> 1, lead_time_days |-> RInt(9), successful_deployments |-> 1,
        change_failure_rate |-> RInt(20), mttr_hours |-> RInt(30) ] }

\* sum(commit.additions + commit.deletions for commit in commits)
TotalChurn(commits) == SumField(commits, "additions") + SumField(commits, "deletions")

\* _calculate_churn_risk_score counting a commit of exactly 300 lines as large
ChurnRiskLargeInclusive(commits) ==
    IF Len(commits) = 0 THEN RInt(0)
    ELSE LET avg_churn_per_commit == Rat(TotalChurn(commits), Len(commits))
             large_commits ==
                 Cardinality({i \in 1..Len(commits) :
                                commits[i].additions + commits[i].deletions >= 300})
             large_commit_ratio == Rat(large_commits, Len(commits))
         IN  RMin(RInt(100),
                  RAdd(RDivInt(avg_churn_per_commit, 10), RMulInt(large_commit_ratio, 50)))

\* _calculate_churn_risk_score
calculate_churn_risk_score(commits) ==
    IF Len(commits) = 0 THEN RInt(0)
    ELSE LET avg_churn_per_commit == Rat(TotalChurn(commits), Len(commits))
             large_commits ==
                 Cardinality({i \in 1..Len(commits) :
                                commits[i].additions + commits[i].deletions > 300})
             large_commit_ratio == Rat(large_commits, Len(commits))
         IN  RMin(RInt(100),
                  RAdd(RDivInt(avg_churn_per_commit, 10), RMulInt(large_commit_ratio, 50)))

\* calculate_code_churn_metrics
calculate_code_churn_metrics(commits) ==
    [ total_churn      |-> TotalChurn(commits),
      churn_rate       |-> IF Len(commits) > 0
                           THEN Rat(TotalChurn(commits), Len(commits)) ELSE RInt(0),
      high_churn_files |-> 0,
      risk_score       |-> calculate_churn_risk_score(commits) ]

\* _calculate_lead_time: for each commit the first deployment, in the order storage
\* returned them, that is later than the commit and of its repository; times in days
calculate_lead_time(commits, deployments) ==
    LET Matches(c) ==
            {j \in 1..Len(deployments) :
                /\ deployments[j].deployed_at > c.committed_at
                /\ deployments[j].repository_id = c.repository_id}
        FirstMatch(c) == deployments[CHOOSE j \in Matches(c) : \A k \in Matches(c) : j <= k]
        matched == SelectSeq(commits, LAMBDA c : Matches(c) # {})
        lead_times ==
            [i \in 1..Len(matched) |->
                [days |-> FirstMatch(matched[i]).deployed_at - matched[i].committed_at]]
    IN  IF Len(lead_times) > 0
        THEN Rat(SumField(lead_times, "days"), Len(lead_times))
        ELSE RInt(0)

\* _calculate_change_failure_rate without the break: one count per incident
ChangeFailureRatePerIncident(deployments, incidents) ==
    IF Len(deployments) = 0 THEN RInt(0)
    ELSE LET failed_deployments ==
                 Cardinality({jk \in (1..Len(deployments)) \X (1..Len(incidents)) :
                                incidents[jk[2]].caused_by_deployment_id
                                    = Some(deployments[jk[1]].id)})
         IN  RMulInt(Rat(failed_deployments, Len(deployments)), 100)

\* _calculate_change_failure_rate
calculate_change_failure_rate(deployments, incidents) ==
    IF Len(deployments) = 0 THEN RInt(0)
    ELSE LET failed_deployments ==
                 Cardinality({j \in 1..Len(deployments) :
                                \E k \in 1..Len(incidents) :
                                    incidents[k].caused_by_deployment_id
                                        = Some(deployments[j].id)})
         IN  RMulInt(Rat(failed_deployments, Len(deployments)), 100)

\* the figures generate_performance_summary gathers for each of the three scopes
MetricsSamples ==
    LET EngineMetrics(sc) ==
        LET churn_metrics == calculate_code_churn_metrics(sc.commits)
        IN  [ commits |-> Len(sc.commits), prs |-> sc.prs,
              lines_added   |-> SumField(sc.commits, "additions"),
              lines_deleted |-> SumField(sc.commits, "deletions"),
              files_changed |-> SumField(sc.commits, "changed_files"),
              lead_time_days |-> sc.lead_time_days,
              successful_deployments |-> sc.successful_deployments,
              change_failure_rate |-> sc.change_failure_rate, mttr_hours |-> sc.mttr_hours,
              total_churn |-> churn_metrics.total_churn, churn_rate |-> churn_metrics.churn_rate,
              risk_score |-> churn_metrics.risk_score,
              high_churn_files |-> churn_metrics.high_churn_files ]
    IN  {EngineMetrics(sc) : sc \in StoredScopes}

\* _calculate_deployment_frequency: len(successful) / days if days > 0 else 0.0
deployment_frequency(successful, days) ==
    IF days > 0 THEN Rat(successful, days) ELSE RInt(0)

\* the dict returned by generate_performance_summary
generate_performance_summary(m, days) ==
    [ period_days |-> days,
      basic_stats |->
        [ total_commits       |-> m.commits,
          total_pull_requests |-> m.prs,
          lines_added         |-> m.lines_added,
          lines_deleted       |-> m.lines_deleted,
          files_changed       |-> m.files_changed ],
      dora_metrics |->
        [ lead_time_days       |-> m.lead_time_days,
          deployment_frequency |-> deployment_frequency(m.successful_deployments, days),
          change_failure_rate  |-> m.change_failure_rate,
          mttr_hours           |-> m.mttr_hours ],
      code_quality |->
        [ total_churn     |-> m.total_churn,
          churn_rate      |-> m.churn_rate,
          risk_score      |-> m.risk_score,
          high_risk_files |-> m.high_churn_files ],
      review_metrics |-> calculate_review_metrics(m.prs) ]

\* a call of generate_performance_summary: a storage failure raises, else a summary
SummaryResponses ==
    {[raise |-> TRUE, m |-> None]} \cup {[raise |-> FALSE, m |-> m] : m \in MetricsSamples}

-----------------------------------------------------------------------------
(* Source-control collaborator, bootstrap path *)

\* commit dicts returned by get_repository_commits
CommitSmall == [additions |-> 10, deletions |-> 4, changed_files |-> 2]
CommitLarge == [additions |-> 300, deletions |-> 200, changed_files |-> 7]
CommitLists == {<<>>, <<CommitSmall, CommitLarge>>}

\* dicts returned by sync_repository_data: the counts stored; a sync whose own
\* fetches or stores failed reports the smaller counts, down to 0 and 0
SyncSamples ==
    { [commits_stored |-> 0, pull_requests_stored |-> 0],
      [commits_stored |-> 2, pull_requests_stored |-> 1] }

\* what the client does for one repository: the sync call raises or returns its
\* counts, then the commit fetch raises or returns a list
RepoResponses ==
    {[sync_raise |-> TRUE, sync |-> None, commits_raise |-> FALSE, commits |-> <<>>]}
    \cup
    {[sync_raise |-> FALSE, sync |-> sy, commits_raise |-> TRUE, commits |-> <<>>] :
        sy \in SyncSamples}
    \cup
    {[sync_raise |-> FALSE, sync |-> sy, commits_raise |-> FALSE, commits |-> cl] :
        sy \in SyncSamples, cl \in CommitLists}

RepoFailed(r) == r.sync_raise \/ r.commits_raise

ZeroTotals ==
    [ total_commits |-> 0, total_prs |-> 0, lines_added |-> 0,
      lines_deleted |-> 0, files_changed |-> 0, visited |-> 0 ]

\* body of the loop over repos with its try/except; visited counts the iterations
ProcessRepo(acc, r) ==
    IF r.sync_raise
    THEN [acc EXCEPT !.visited = @ + 1]
    ELSE LET counted == [acc EXCEPT !.total_commits = @ + r.sync.commits_stored,
                                    !.total_prs = @ + r.sync.pull_requests_stored]
         IN  IF r.commits_raise
             THEN [counted EXCEPT !.visited = @ + 1]
             ELSE [counted EXCEPT
                     !.lines_added   = @ + SumField(r.commits, "additions"),
                     !.lines_deleted = @ + SumField(r.commits, "deletions"),
                     !.files_changed = @ + SumField(r.commits, "changed_files"),
                     !.visited       = @ + 1]

RECURSIVE OverallTotalsBreak(_, _)
\* the loop leaving at the first repository that fails
OverallTotalsBreak(acc, repos) ==
    IF Len(repos) = 0 THEN acc
    ELSE IF RepoFailed(Head(repos)) THEN ProcessRepo(acc, Head(repos))
    ELSE OverallTotalsBreak(ProcessRepo(acc, Head(repos)), Tail(repos))

RECURSIVE OverallTotals(_, _)
\* for repo in repos: ...   (left to right)
OverallTotals(acc, repos) ==
    IF Len(repos) = 0 THEN acc
    ELSE OverallTotals(ProcessRepo(acc, Head(repos)), Tail(repos))

\* the state of the random module decides every draw of one summary
Seeds == {"lo", "hi"}

\* round(random.uniform(lo, hi), 1), in tenths
Uniform(seed, lo10, hi10) == Rat(IF seed = "lo" THEN lo10 ELSE hi10, 10)

\* random.randint(lo, hi)
RandInt(seed, lo, hi) == IF seed = "lo" THEN lo ELSE hi

Max(a, b) == IF a >= b THEN a ELSE b

\* the dict built from the totals when no team is registered
BootstrapSummary(t, days, seed) ==
    [ period_days |-> days,
      basic_stats |->
        [ total_commits       |-> t.total_commits,
          total_pull_requests |-> t.total_prs,
          lines_added         |-> t.lines_added,
          lines_deleted       |-> t.lines_deleted,
          files_changed       |-> t.files_changed ],
      dora_metrics |->
        [ lead_time_days       |-> IF t.total_commits > 0
                                   THEN Uniform(seed, 15, 35) ELSE RInt(0),
          deployment_frequency |-> IF days > 0
                                   THEN Round(Rat(t.total_commits, days), 2) ELSE RInt(0),
          change_failure_rate  |-> Uniform(seed, 30, 80),
          mttr_hours           |-> Uniform(seed, 35, 60) ],
      code_quality |->
        [ total_churn     |-> t.lines_added + t.lines_deleted,
          churn_rate      |-> Round(Rat(t.lines_added + t.lines_deleted,
                                        Max(t.total_commits, 1)), 1),
          risk_score      |-> Uniform(seed, 150, 350),
          high_risk_files |-> RandInt(seed, 0, 5) ],
      review_metrics |->
        [ avg_review_time_hours     |-> Uniform(seed, 60, 120),
          review_participation_rate |-> Uniform(seed, 700, 950),
          pr_cycle_time_hours       |-> Uniform(seed, 120, 240),
          approval_rate             |-> Uniform(seed, 850, 980) ] ]

-----------------------------------------------------------------------------
(* Aggregator, multi-team path *)

RECURSIVE SumInt(_, _, _)
\* aggregated[category][metric] += value over the teams, integer metrics
SumInt(ds, category, metric) ==
    IF Len(ds) = 0 THEN 0
    ELSE Head(ds)[category][metric] + SumInt(Tail(ds), category, metric)

RECURSIVE SumRat(_, _, _)
\* aggregated[category][metric] += value over the teams, real metrics
SumRat(ds, category, metric) ==
    IF Len(ds) = 0 THEN RInt(0)
    ELSE RAdd(Head(ds)[category][metric], SumRat(Tail(ds), category, metric))

\* sum over the teams, then /= team_count
Averaged(ds, category, metric) == RDivInt(SumRat(ds, category, metric), Len(ds))

\* the aggregation with risk_score left out of the list of averaged metrics
AggregateTeamsSumsRisk(ds, days) ==
    [ period_days |-> days,
      basic_stats |->
        [ total_commits       |-> SumInt(ds, "basic_stats", "total_commits"),
          total_pull_requests |-> SumInt(ds, "basic_stats", "total_pull_requests"),
          lines_added         |-> SumInt(ds, "basic_stats", "lines_added"),
          lines_deleted       |-> SumInt(ds, "basic_stats", "lines_deleted"),
          files_changed       |-> SumInt(ds, "basic_stats", "files_changed") ],
      dora_metrics |->
        [ lead_time_days       |-> Averaged(ds, "dora_metrics", "lead_time_days"),
          deployment_frequency |-> Averaged(ds, "dora_metrics", "deployment_frequency"),
          change_failure_rate  |-> Averaged(ds, "dora_metrics", "change_failure_rate"),
          mttr_hours           |-> Averaged(ds, "dora_metrics", "mttr_hours") ],
      code_quality |->
        [ total_churn     |-> SumInt(ds, "code_quality", "total_churn"),
          churn_rate      |-> Averaged(ds, "code_quality", "churn_rate"),
          risk_score      |-> SumRat(ds, "code_quality", "risk_score"),
          high_risk_files |-> SumInt(ds, "code_quality", "high_risk_files") ],
      review_metrics |->
        [ avg_review_time_hours     |-> Averaged(ds, "review_metrics", "avg_review_time_hours"),
          review_participation_rate |-> Averaged(ds, "review_metrics", "review_participation_rate"),
          pr_cycle_time_hours       |-> Averaged(ds, "review_metrics", "pr_cycle_time_hours"),
          approval_rate             |-> Averaged(ds, "review_metrics", "approval_rate") ] ]

\* the aggregated dict for the summaries ds of one or more teams
AggregateTeams(ds, days) ==
    [ period_days |-> days,
      basic_stats |->
        [ total_commits       |-> SumInt(ds, "basic_stats", "total_commits"),
          total_pull_requests |-> SumInt(ds, "basic_stats", "total_pull_requests"),
          lines_added         |-> SumInt(ds, "basic_stats", "lines_added"),
          lines_deleted       |-> SumInt(ds, "basic_stats", "lines_deleted"),
          files_changed       |-> SumInt(ds, "basic_stats", "files_changed") ],
      dora_metrics |->
        [ lead_time_days       |-> Averaged(ds, "dora_metrics", "lead_time_days"),
          deployment_frequency |-> Averaged(ds, "dora_metrics", "deployment_frequency"),
          change_failure_rate  |-> Averaged(ds, "dora_metrics", "change_failure_rate"),
          mttr_hours           |-> Averaged(ds, "dora_metrics", "mttr_hours") ],
      code_quality |->
        [ total_churn     |-> SumInt(ds, "code_quality", "total_churn"),
          churn_rate      |-> Averaged(ds, "code_quality", "churn_rate"),
          risk_score      |-> Averaged(ds, "code_quality", "risk_score"),
          high_risk_files |-> SumInt(ds, "code_quality", "high_risk_files") ],
      review_metrics |->
        [ avg_review_time_hours     |-> Averaged(ds, "review_metrics", "avg_review_time_hours"),
          review_participation_rate |-> Averaged(ds, "review_metrics", "review_participation_rate"),
          pr_cycle_time_hours       |-> Averaged(ds, "review_metrics", "pr_cycle_time_hours"),
          approval_rate             |-> Averaged(ds, "review_metrics", "approval_rate") ] ]

-----------------------------------------------------------------------------
(* Stage 1: DataHarvesterAgent *)

\* the collaborators' behaviour during one Harvest:
\*   summary      the single generate_performance_summary call (engineer / team scope)
\*   teams_raise  get_all_teams raises
\*   teams        one generate_performance_summary response per registered team
\*   user_raise   get_user / get_repos raises
\*   repos        one response per repository of the account
\*   seed         state of the random module
NoSummary == [raise |-> FALSE, m |-> None]

ScopedEnvs ==
    { [summary |-> r, teams_raise |-> FALSE, teams |-> <<>>, user_raise |-> FALSE,
       repos |-> <<>>, seed |-> "lo"] : r \in SummaryResponses }

OverallEnvs ==
    { [summary |-> NoSummary, teams_raise |-> TRUE, teams |-> <<>>, user_raise |-> FALSE,
       repos |-> <<>>, seed |-> "lo"] }
    \cup
    { [summary |-> NoSummary, teams_raise |-> FALSE, teams |-> ts, user_raise |-> FALSE,
       repos |-> <<>>, seed |-> "lo"] : ts \in SeqsUpTo(SummaryResponses, MaxTeams) \ {<<>>} }
    \cup
    { [summary |-> NoSummary, teams_raise |-> FALSE, teams |-> <<>>, user_raise |-> TRUE,
       repos |-> <<>>, seed |-> "lo"] }
    \cup
    { [summary |-> NoSummary, teams_raise |-> FALSE, teams |-> <<>>, user_raise |-> FALSE,
       repos |-> rs, seed |-> sd] : rs \in SeqsUpTo(RepoResponses, MaxRepos), sd \in Seeds }

NoHarvestEnv ==
    [summary |-> NoSummary, teams_raise |-> FALSE, teams |-> <<>>, user_raise |-> FALSE,
     repos |-> <<>>, seed |-> "lo"]

\* "engineer", "team" or "overall": the branch execute takes
HarvestPath(s) ==
    IF TruthyId(s.engineer_id) THEN "engineer"
    ELSE IF TruthyId(s.team_id) THEN "team"
    ELSE "overall"

HarvestEnvs(s) == IF HarvestPath(s) = "overall" THEN OverallEnvs ELSE ScopedEnvs

BootstrapPath(env) == ~env.teams_raise /\ Len(env.teams) = 0

\* _get_overall_stats: raises, or returns a summary
GetOverallStats(days, env) ==
    IF env.teams_raise
    THEN [raise |-> TRUE, cause |-> "storage", data |-> None]
    ELSE IF Len(env.teams) = 0
    THEN IF env.user_raise
         THEN [raise |-> TRUE, cause |-> "source_control", data |-> None]
         ELSE [raise |-> FALSE, cause |-> "",
               data |-> BootstrapSummary(OverallTotals(ZeroTotals, env.repos), days, env.seed)]
    ELSE IF \E i \in 1..Len(env.teams) : env.teams[i].raise
    THEN [raise |-> TRUE, cause |-> "storage", data |-> None]
    ELSE [raise |-> FALSE, cause |-> "",
          data |-> AggregateTeams(
                     [i \in 1..Len(env.teams) |->
                        generate_performance_summary(env.teams[i].m, days)], days)]

\* the body of the try block of execute
HarvestData(s, env) ==
    IF HarvestPath(s) = "overall"
    THEN GetOverallStats(s.time_period, env)
    ELSE IF env.summary.raise
    THEN [raise |-> TRUE, cause |-> "storage", data |-> None]
    ELSE [raise |-> FALSE, cause |-> "",
          data |-> generate_performance_summary(env.summary.m, s.time_period)]

\* DataHarvesterAgent.execute
DataHarvesterExecute(s, env) ==
    LET r == HarvestData(s, env)
    IN  IF r.raise
        THEN [s EXCEPT !.error = Err("Data harvesting", r.cause)]
        ELSE [s EXCEPT !.raw_data = r.data]

-----------------------------------------------------------------------------
(* Stage 2: DiffAnalystAgent, the Analysis Engine *)

\* _analyze_churn_patterns with the HIGH cut point written >= 200
AnalyzeChurnInclusive(data) ==
    LET churn_data  == Get(data, "code_quality", EmptyDict)
        total_churn == Get(churn_data, "total_churn", 0)
        churn_rate  == Get(churn_data, "churn_rate", RInt(0))
        risk_score  == Get(churn_data, "risk_score", RInt(0))
        churn_level == IF RGeInt(churn_rate, 200) THEN "HIGH"
                       ELSE IF RGtInt(churn_rate, 100) THEN "MODERATE"
                       ELSE "LOW"
    IN  [ total_churn     |-> total_churn,
          churn_rate      |-> churn_rate,
          churn_level     |-> churn_level,
          risk_score      |-> risk_score,
          recommendations |->
            IF churn_level = "HIGH"
            THEN <<"Consider breaking down large changes", "Increase code review rigor">>
            ELSE IF churn_level = "MODERATE"
            THEN <<"Monitor for refactoring opportunities", "Maintain current review practices">>
            ELSE <<"Churn levels are healthy", "Continue current practices">>,
          patterns |->
            [ large_changes           |-> RGtInt(churn_rate, 150),
              frequent_modifications  |-> total_churn > 5000,
              risk_threshold_exceeded |-> RGtInt(risk_score, 70) ] ]

\* _analyze_churn_patterns with large_changes cut at 250 instead of 150
AnalyzeChurnLargeAt250(data) ==
    LET churn_data  == Get(data, "code_quality", EmptyDict)
        total_churn == Get(churn_data, "total_churn", 0)
        churn_rate  == Get(churn_data, "churn_rate", RInt(0))
        risk_score  == Get(churn_data, "risk_score", RInt(0))
        churn_level == IF RGtInt(churn_rate, 200) THEN "HIGH"
                       ELSE IF RGtInt(churn_rate, 100) THEN "MODERATE"
                       ELSE "LOW"
    IN  [ total_churn     |-> total_churn,
          churn_rate      |-> churn_rate,
          churn_level     |-> churn_level,
          risk_score      |-> risk_score,
          recommendations |->
            IF churn_level = "HIGH"
            THEN <<"Consider breaking down large changes", "Increase code review rigor">>
            ELSE IF churn_level = "MODERATE"
            THEN <<"Monitor for refactoring opportunities", "Maintain current review practices">>
            ELSE <<"Churn levels are healthy", "Continue current practices">>,
          patterns |->
            [ large_changes           |-> RGtInt(churn_rate, 250),
              frequent_modifications  |-> total_churn > 5000,
              risk_threshold_exceeded |-> RGtInt(risk_score, 70) ] ]

\* _analyze_churn_patterns
analyze_churn_patterns(data) ==
    LET churn_data  == Get(data, "code_quality", EmptyDict)
        total_churn == Get(churn_data, "total_churn", 0)
        churn_rate  == Get(churn_data, "churn_rate", RInt(0))
        risk_score  == Get(churn_data, "risk_score", RInt(0))
        churn_level == IF RGtInt(churn_rate, 200) THEN "HIGH"
                       ELSE IF RGtInt(churn_rate, 100) THEN "MODERATE"
                       ELSE "LOW"
        recommendations ==
            IF churn_level = "HIGH"
            THEN <<"Consider breaking down large changes", "Increase code review rigor">>
            ELSE IF churn_level = "MODERATE"
            THEN <<"Monitor for refactoring opportunities", "Maintain current review practices">>
            ELSE <<"Churn levels are healthy", "Continue current practices">>
    IN  [ total_churn     |-> total_churn,
          churn_rate      |-> churn_rate,
          churn_level     |-> churn_level,
          risk_score      |-> risk_score,
          recommendations |-> recommendations,
          patterns |->
            [ large_changes           |-> RGtInt(churn_rate, 150),
              frequent_modifications  |-> total_churn > 5000,
              risk_threshold_exceeded |-> RGtInt(risk_score, 70) ] ]

RiskFailureRate == "High change failure rate indicates quality issues"
RiskLeadTime == "Long lead times may indicate process bottlenecks"
RiskChurn == "Code churn patterns indicate potential technical debt"
RiskReview == "Low review participation may lead to quality issues"
RiskNone == "No significant risk factors identified"

\* keyword in risk.lower(), for the five messages and the four keywords
Contains(risk, keyword) ==
    <<risk, keyword>> \in { <<RiskFailureRate, "failure rate">>,
                            <<RiskLeadTime, "lead time">>,
                            <<RiskChurn, "churn">>,
                            <<RiskReview, "review">> }

\* the chain with the keyword "lead" in place of "lead time": the review message
\* ("... may lead to quality issues") is taken by the lead-time branch
StrategiesForLead(risk) ==
    IF Contains(risk, "failure rate")
    THEN {"Implement more comprehensive testing", "Add pre-deployment validation checks"}
    ELSE IF Contains(risk, "lead time") \/ risk = RiskReview
    THEN {"Optimize CI/CD pipeline", "Reduce approval bottlenecks"}
    ELSE IF Contains(risk, "churn")
    THEN {"Focus on smaller, more frequent changes", "Increase pair programming sessions"}
    ELSE IF Contains(risk, "review")
    THEN {"Implement review assignment automation", "Provide code review training"}
    ELSE {}

\* the if / elif chain of _suggest_mitigation_strategies for one risk
StrategiesFor(risk) ==
    IF Contains(risk, "failure rate")
    THEN {"Implement more comprehensive testing", "Add pre-deployment validation checks"}
    ELSE IF Contains(risk, "lead time")
    THEN {"Optimize CI/CD pipeline", "Reduce approval bottlenecks"}
    ELSE IF Contains(risk, "churn")
    THEN {"Focus on smaller, more frequent changes", "Increase pair programming sessions"}
    ELSE IF Contains(risk, "review")
    THEN {"Implement review assignment automation", "Provide code review training"}
    ELSE {}

\* two of the string hash seeds an interpreter process can start with
HashSeeds == {"h0", "h1"}

\* list(set(...)): the members of S in the iteration order of a set of str, which
\* the hash seed of the process decides
ListOfSet(S, seed) ==
    LET \* the eight strategy texts, in the order the code names them
        AllStrategies ==
          << "Implement more comprehensive testing", "Add pre-deployment validation checks",
             "Optimize CI/CD pipeline", "Reduce approval bottlenecks",
             "Focus on smaller, more frequent changes", "Increase pair programming sessions",
             "Implement review assignment automation", "Provide code review training" >>
        listed == SelectSeq(AllStrategies, LAMBDA x : x \in S)
    IN  IF seed = "h0" THEN listed
        ELSE [i \in 1..Len(listed) |-> listed[Len(listed) + 1 - i]]

\* _suggest_mitigation_strategies: list(set(strategies))
suggest_mitigation_strategies(risks) ==
    ListOfSet(UNION {StrategiesFor(risks[i]) : i \in 1..Len(risks)}, hash_seed)

\* _calculate_composite_risk_score without the outer min(100, ...)
CompositeUnclamped(data) ==
    LET dora           == Get(data, "dora_metrics", EmptyDict)
        code_quality   == Get(data, "code_quality", EmptyDict)
        failure_risk   == RMulInt(Get(dora, "change_failure_rate", RInt(0)), 2)
        churn_risk     == RHalf(Get(code_quality, "risk_score", RInt(0)))
        lead_time_risk == RMin(RInt(50), RMulInt(Get(dora, "lead_time_days", RInt(0)), 5))
    IN  RAdd(RAdd(failure_risk, churn_risk), lead_time_risk)

\* _calculate_composite_risk_score without the cap of 50 on the lead-time term
CompositeLeadUncapped(data) ==
    LET dora           == Get(data, "dora_metrics", EmptyDict)
        code_quality   == Get(data, "code_quality", EmptyDict)
        failure_risk   == RMulInt(Get(dora, "change_failure_rate", RInt(0)), 2)
        churn_risk     == RHalf(Get(code_quality, "risk_score", RInt(0)))
        lead_time_risk == RMulInt(Get(dora, "lead_time_days", RInt(0)), 5)
    IN  RMin(RInt(100), RAdd(RAdd(failure_risk, churn_risk), lead_time_risk))

\* _calculate_composite_risk_score
calculate_composite_risk_score(data) ==
    LET dora           == Get(data, "dora_metrics", EmptyDict)
        code_quality   == Get(data, "code_quality", EmptyDict)
        failure_risk   == RMulInt(Get(dora, "change_failure_rate", RInt(0)), 2)
        churn_risk     == RHalf(Get(code_quality, "risk_score", RInt(0)))
        lead_time_risk == RMin(RInt(50), RMulInt(Get(dora, "lead_time_days", RInt(0)), 5))
    IN  RMin(RInt(100), RAdd(RAdd(failure_risk, churn_risk), lead_time_risk))

\* _assess_risk_factors whose MODERATE checks assign the level without testing
\* that it is still LOW
AssessRiskDowngrades(data) ==
    LET dora         == Get(data, "dora_metrics", EmptyDict)
        code_quality == Get(data, "code_quality", EmptyDict)
        review       == Get(data, "review_metrics", EmptyDict)
        c1 == RGtInt(Get(dora, "change_failure_rate", RInt(0)), 15)
        c2 == RGtInt(Get(dora, "lead_time_days", RInt(0)), 7)
        c3 == RGtInt(Get(code_quality, "risk_score", RInt(0)), 60)
        c4 == RLtInt(Get(review, "review_participation_rate", RInt(100)), 70)
        l1 == IF c1 THEN "HIGH" ELSE "LOW"
        l2 == IF c2 THEN "MODERATE" ELSE l1
        l3 == IF c3 THEN "HIGH" ELSE l2
        l4 == IF c4 THEN "MODERATE" ELSE l3
        found == (IF c1 THEN <<RiskFailureRate>> ELSE <<>>)
                 \o (IF c2 THEN <<RiskLeadTime>> ELSE <<>>)
                 \o (IF c3 THEN <<RiskChurn>> ELSE <<>>)
                 \o (IF c4 THEN <<RiskReview>> ELSE <<>>)
        risks == IF Len(found) = 0 THEN <<RiskNone>> ELSE found
    IN  [ overall_risk_level    |-> l4,
          identified_risks      |-> risks,
          risk_score            |-> calculate_composite_risk_score(data),
          mitigation_strategies |-> suggest_mitigation_strategies(risks) ]

\* _assess_risk_factors with the two code-quality and DORA checks grouped: the
\* churn message is appended before the lead-time message
AssessRiskReordered(data) ==
    LET dora         == Get(data, "dora_metrics", EmptyDict)
        code_quality == Get(data, "code_quality", EmptyDict)
        review       == Get(data, "review_metrics", EmptyDict)
        c1 == RGtInt(Get(dora, "change_failure_rate", RInt(0)), 15)
        c2 == RGtInt(Get(dora, "lead_time_days", RInt(0)), 7)
        c3 == RGtInt(Get(code_quality, "risk_score", RInt(0)), 60)
        c4 == RLtInt(Get(review, "review_participation_rate", RInt(100)), 70)
        level == IF c1 \/ c3 THEN "HIGH" ELSE IF c2 \/ c4 THEN "MODERATE" ELSE "LOW"
        found == (IF c1 THEN <<RiskFailureRate>> ELSE <<>>)
                 \o (IF c3 THEN <<RiskChurn>> ELSE <<>>)
                 \o (IF c2 THEN <<RiskLeadTime>> ELSE <<>>)
                 \o (IF c4 THEN <<RiskReview>> ELSE <<>>)
        risks == IF Len(found) = 0 THEN <<RiskNone>> ELSE found
    IN  [ overall_risk_level    |-> level,
          identified_risks      |-> risks,
          risk_score            |-> calculate_composite_risk_score(data),
          mitigation_strategies |-> suggest_mitigation_strategies(risks) ]

\* _assess_risk_factors
assess_risk_factors(data) ==
    LET dora         == Get(data, "dora_metrics", EmptyDict)
        code_quality == Get(data, "code_quality", EmptyDict)
        review       == Get(data, "review_metrics", EmptyDict)
        c1 == RGtInt(Get(dora, "change_failure_rate", RInt(0)), 15)
        c2 == RGtInt(Get(dora, "lead_time_days", RInt(0)), 7)
        c3 == RGtInt(Get(code_quality, "risk_score", RInt(0)), 60)
        c4 == RLtInt(Get(review, "review_participation_rate", RInt(100)), 70)
        l1 == IF c1 THEN "HIGH" ELSE "LOW"
        l2 == IF c2 /\ l1 = "LOW" THEN "MODERATE" ELSE l1
        l3 == IF c3 THEN "HIGH" ELSE l2
        l4 == IF c4 /\ l3 = "LOW" THEN "MODERATE" ELSE l3
        found == (IF c1 THEN <<RiskFailureRate>> ELSE <<>>)
                 \o (IF c2 THEN <<RiskLeadTime>> ELSE <<>>)
                 \o (IF c3 THEN <<RiskChurn>> ELSE <<>>)
                 \o (IF c4 THEN <<RiskReview>> ELSE <<>>)
        risks == IF Len(found) = 0 THEN <<RiskNone>> ELSE found
    IN  [ overall_risk_level    |-> l4,
          identified_risks      |-> risks,
          risk_score            |-> calculate_composite_risk_score(data),
          mitigation_strategies |-> suggest_mitigation_strategies(risks) ]

\* _score_to_grade with the cut points written as strict comparisons
ScoreToGradeStrict(score) ==
    IF RGtInt(score, 90) THEN "A"
    ELSE IF RGtInt(score, 80) THEN "B"
    ELSE IF RGtInt(score, 70) THEN "C"
    ELSE IF RGtInt(score, 60) THEN "D"
    ELSE "F"

\* _score_to_grade
score_to_grade(score) ==
    IF RGeInt(score, 90) THEN "A"
    ELSE IF RGeInt(score, 80) THEN "B"
    ELSE IF RGeInt(score, 70) THEN "C"
    ELSE IF RGeInt(score, 60) THEN "D"
    ELSE "F"

\* _calculate_quality_indicators without the min(100, ...) on the velocity
QualityIndicatorsUnclamped(data) ==
    LET basic  == Get(data, "basic_stats", EmptyDict)
        dora   == Get(data, "dora_metrics", EmptyDict)
        review == Get(data, "review_metrics", EmptyDict)
        velocity_score ==
            RMulInt(Rat(Get(basic, "total_commits", 0), Get(data, "period_days", 7)), 10)
        quality_score ==
            RMax(RInt(0),
                 RSub(RInt(100), RMulInt(Get(dora, "change_failure_rate", RInt(0)), 5)))
        collaboration_score == Get(review, "review_participation_rate", RInt(0))
        overall_score ==
            RDivInt(RAdd(RAdd(velocity_score, quality_score), collaboration_score), 3)
    IN  [ velocity_score      |-> Round(velocity_score, 1),
          quality_score       |-> Round(quality_score, 1),
          collaboration_score |-> Round(collaboration_score, 1),
          overall_score       |-> Round(overall_score, 1),
          grade               |-> score_to_grade(overall_score) ]

\* _calculate_quality_indicators, for period_days # 0
calculate_quality_indicators(data) ==
    LET basic  == Get(data, "basic_stats", EmptyDict)
        dora   == Get(data, "dora_metrics", EmptyDict)
        review == Get(data, "review_metrics", EmptyDict)
        velocity_score ==
            RMin(RInt(100),
                 RMulInt(Rat(Get(basic, "total_commits", 0), Get(data, "period_days", 7)), 10))
        quality_score ==
            RMax(RInt(0),
                 RSub(RInt(100), RMulInt(Get(dora, "change_failure_rate", RInt(0)), 5)))
        collaboration_score == Get(review, "review_participation_rate", RInt(0))
        overall_score ==
            RDivInt(RAdd(RAdd(velocity_score, quality_score), collaboration_score), 3)
    IN  [ velocity_score      |-> Round(velocity_score, 1),
          quality_score       |-> Round(quality_score, 1),
          collaboration_score |-> Round(collaboration_score, 1),
          overall_score       |-> Round(overall_score, 1),
          grade               |-> score_to_grade(overall_score) ]

\* _analyze_trends
analyze_trends(data) ==
    [ velocity_trend      |-> "stable",
      quality_trend       |-> "improving",
      collaboration_trend |-> "stable",
      recommendations     |-> << "Maintain current development pace",
                                 "Continue focus on quality practices",
                                 "Consider expanding collaboration metrics" >> ]

\* strict lookups data['basic_stats'] ... : a missing sub-group raises KeyError
AnalysisRaisesStrict(data) ==
    \/ Get(data, "period_days", 7) = 0
    \/ \E g \in {"basic_stats", "dora_metrics", "code_quality", "review_metrics"} :
          g \notin DOMAIN data

\* total_commits / period_days raises ZeroDivisionError
AnalysisRaises(data) == Get(data, "period_days", 7) = 0

\* the analysis dict built in the try block of execute
DiffAnalysis(data) ==
    [ churn_analysis     |-> analyze_churn_patterns(data),
      risk_assessment    |-> assess_risk_factors(data),
      quality_indicators |-> calculate_quality_indicators(data),
      trend_analysis     |-> analyze_trends(data) ]

\* the guard: if state.error or not state.raw_data: return state
AnalystSkips(s) == s.error # None \/ ~TruthyDict(s.raw_data)

\* execute storing the parts computed before the exception
DiffAnalystPartial(s) ==
    IF AnalystSkips(s) THEN s
    ELSE IF AnalysisRaises(s.raw_data)
    THEN [s EXCEPT !.error = Err("Diff analysis", "division by zero"),
                   !.analysis_results =
                      [ churn_analysis  |-> analyze_churn_patterns(s.raw_data),
                        risk_assessment |-> assess_risk_factors(s.raw_data) ]]
    ELSE [s EXCEPT !.analysis_results = DiffAnalysis(s.raw_data)]

\* execute with a handler that returns the state without recording the error
DiffAnalystSwallows(s) ==
    IF AnalystSkips(s) THEN s
    ELSE IF AnalysisRaises(s.raw_data) THEN s
    ELSE [s EXCEPT !.analysis_results = DiffAnalysis(s.raw_data)]

\* execute that writes the composite score back into the raw data it was given
DiffAnalystRescales(s) ==
    IF AnalystSkips(s) THEN s
    ELSE IF AnalysisRaises(s.raw_data)
    THEN [s EXCEPT !.error = Err("Diff analysis", "division by zero")]
    ELSE [s EXCEPT !.analysis_results = DiffAnalysis(s.raw_data),
                   !.raw_data.code_quality.risk_score =
                       calculate_composite_risk_score(s.raw_data)]

\* DiffAnalystAgent.execute
DiffAnalystExecute(s) ==
    IF AnalystSkips(s) THEN s
    ELSE IF AnalysisRaises(s.raw_data)
    THEN [s EXCEPT !.error = Err("Diff analysis", "division by zero")]
    ELSE [s EXCEPT !.analysis_results = DiffAnalysis(s.raw_data)]

-----------------------------------------------------------------------------
(* Stage 3: InsightNarratorAgent *)

\* A response text is described by its lines and its sentences.  A line is
\*   marker   its first character after strip() is a digit, '-', a bullet or '*'
\*   length   len(line) after strip()
\*   cleaned  len of the line after lstrip of digits, '.', '-', bullet, '*' and ' '.strip()
\*   text     the cleaned line
\* and a sentence (a piece between two '.') is
\*   length   len(sentence) after strip()
\*   keyword  'team' or 'performance' occurs in sentence.lower()
\*   text     the sentence with '.' appended
Line(marker, length, cleaned, text) ==
    [marker |-> marker, length |-> length, cleaned |-> cleaned, text |-> text]
Sentence(length, keyword, text) ==
    [length |-> length, keyword |-> keyword, text |-> text]

\* six numbered or bulleted insights between a heading and a blank line
ContentStructured ==
    [ lines |-> << Line(FALSE, 40, 40, "heading"), Line(TRUE, 60, 57, "i1"),
                   Line(TRUE, 50, 47, "i2"), Line(FALSE, 0, 0, ""),
                   Line(TRUE, 12, 9, "short"), Line(TRUE, 33, 31, "i3"),
                   Line(TRUE, 29, 27, "i4"), Line(TRUE, 45, 43, "i5"),
                   Line(TRUE, 36, 34, "i6") >>,
      sentences |-> << Sentence(45, TRUE, "s0") >> ]
\* two qualifying lines
ContentTwo ==
    [ lines |-> << Line(TRUE, 25, 21, "j1"), Line(TRUE, 24, 20, "edge"),
                   Line(TRUE, 10, 10, "ten"), Line(TRUE, 44, 40, "j2") >>,
      sentences |-> << Sentence(50, TRUE, "s1") >> ]
\* prose only: the sentence fallback applies
ContentProse ==
    [ lines |-> << Line(FALSE, 90, 90, "prose") >>,
      sentences |-> << Sentence(31, TRUE, "s2"), Sentence(30, TRUE, "s3"),
                       Sentence(48, FALSE, "s4"), Sentence(35, TRUE, "s5") >> ]
\* the mock client's last branch: one line, no 'team', 'performance' only in
\* the second sentence: "Key performance indicators are within expected ranges"
ContentDefault ==
    [ lines |-> << Line(FALSE, 88, 88, "default") >>,
      sentences |-> << Sentence(32, FALSE, "d1"), Sentence(54, TRUE, "d2"),
                       Sentence(0, FALSE, "d3") >> ]
\* a short acknowledgement: nothing qualifies
ContentBare ==
    [ lines |-> << Line(FALSE, 2, 2, "OK") >>,
      sentences |-> << Sentence(2, FALSE, "OK") >> ]

Contents == {ContentStructured, ContentTwo, ContentProse, ContentDefault, ContentBare}

\* generate_text raises, or returns a response whose content is a text or None
LLMResponses ==
    {[raise |-> TRUE, content |-> None], [raise |-> FALSE, content |-> None]}
    \cup {[raise |-> FALSE, content |-> c] : c \in Contents}

NoLLMEnv == [raise |-> FALSE, content |-> None]

LineQualifies(l) == l.length > 0 /\ l.marker /\ l.length > 10 /\ l.cleaned > 20
SentenceQualifies(t) == t.length > 30 /\ t.keyword

Texts(xs) == [i \in 1..Len(xs) |-> xs[i].text]
Min(a, b) == IF a <= b THEN a ELSE b

\* _parse_insights_from_response that runs the sentence pass unconditionally
ParseAppendsSentences(content) ==
    LET structured == Texts(SelectSeq(content.lines, LineQualifies))
        insights   == structured \o Texts(SelectSeq(content.sentences, SentenceQualifies))
    IN  SubSeq(insights, 1, Min(5, Len(insights)))

\* _parse_insights_from_response
parse_insights_from_response(content) ==
    LET structured == Texts(SelectSeq(content.lines, LineQualifies))
        insights   == IF Len(structured) = 0
                      THEN Texts(SelectSeq(content.sentences, SentenceQualifies))
                      ELSE structured
    IN  SubSeq(insights, 1, Min(5, Len(insights)))

\* _create_narrative: narrative_parts, later joined with newlines
create_narrative(raw_data, analysis, insights) ==
    LET basic == Get(raw_data, "basic_stats", EmptyDict)
        quality_indicators == Get(analysis, "quality_indicators", EmptyDict)
        risk_assessment == Get(analysis, "risk_assessment", EmptyDict)
        risks == Get(risk_assessment, "identified_risks", <<>>)
        strategies == Get(risk_assessment, "mitigation_strategies", <<>>)
    IN  << [part |-> "title", period |-> Get(raw_data, "period_days", 7)],
           [part |-> "summary",
            commits    |-> Get(basic, "total_commits", 0),
            prs        |-> Get(basic, "total_pull_requests", 0),
            grade      |-> Get(quality_indicators, "grade", "N/A"),
            risk_level |-> Get(risk_assessment, "overall_risk_level", "UNKNOWN"),
            risk_score |-> Round(Get(risk_assessment, "risk_score", RInt(0)), 1)] >>
        \o [i \in 1..Len(insights) |-> [part |-> "insight", number |-> i, text |-> insights[i]]]
        \o << [part |-> "scores",
               velocity      |-> Get(quality_indicators, "velocity_score", RInt(0)),
               quality       |-> Get(quality_indicators, "quality_score", RInt(0)),
               collaboration |-> Get(quality_indicators, "collaboration_score", RInt(0))] >>
        \o [i \in 1..Len(risks) |-> [part |-> "risk", text |-> risks[i]]]
        \o (IF Len(strategies) > 0
            THEN << [part |-> "actions", strategies |-> strategies] >>
            ELSE <<>>)
        \o << [part |-> "footer"] >>

\* the guard: if state.error or not state.analysis_results: return state
NarratorSkips(s) == s.error # None \/ ~TruthyDict(s.analysis_results)

\* execute that stores the insights and leaves the narrative empty
InsightNarratorNoNarrative(s, llm) ==
    IF NarratorSkips(s) THEN s
    ELSE IF llm.raise
    THEN [s EXCEPT !.error = Err("Insight generation", "llm")]
    ELSE IF llm.content = None
    THEN [s EXCEPT !.error = Err("Insight generation", "content")]
    ELSE [s EXCEPT !.insights = parse_insights_from_response(llm.content)]

\* execute with a handler that returns the state without recording the error
InsightNarratorSwallows(s, llm) ==
    IF NarratorSkips(s) THEN s
    ELSE IF llm.raise \/ llm.content = None THEN s
    ELSE LET insights == parse_insights_from_response(llm.content)
         IN  [s EXCEPT !.insights = insights,
                       !.narrative = create_narrative(s.raw_data, s.analysis_results, insights)]

\* InsightNarratorAgent.execute
InsightNarratorExecute(s, llm) ==
    IF NarratorSkips(s) THEN s
    ELSE IF llm.raise
    THEN [s EXCEPT !.error = Err("Insight generation", "llm")]
    ELSE IF llm.content = None
    THEN [s EXCEPT !.error = Err("Insight generation", "content")]
    ELSE LET insights == parse_insights_from_response(llm.content)
         IN  [s EXCEPT !.insights = insights,
                       !.narrative = create_narrative(s.raw_data, s.analysis_results, insights)]

-----------------------------------------------------------------------------
(* AgentOrchestrator.process_request *)

\* process_request(request_type, team_id, engineer_id, time_period)
Request(t, e, d) == [team_id |-> t, engineer_id |-> e, time_period |-> d]

Ids == {None, Some(0), Some(1)}
Periods == {0, 7}

NoCalls == [harvest |-> 0, analyze |-> 0, narrate |-> 0, llm |-> 0]

\* the check after a stage that gives the results back empty on an error
AfterStageClears(p, s) ==
    IF s.error # None
    THEN [pc |-> "done",
          state |-> [s EXCEPT !.raw_data = None, !.analysis_results = None,
                              !.insights = <<>>, !.narrative = <<>>]]
    ELSE [pc |-> IF p = "check1" THEN "analyze"
                 ELSE IF p = "check2" THEN "narrate" ELSE "done",
          state |-> s]

\* the check after a stage that runs a failed stage a second time
AfterStageRetries(p, s) ==
    IF s.error # None /\ calls.harvest + calls.analyze + calls.narrate < 4
    THEN [pc |-> IF p = "check1" THEN "harvest"
                 ELSE IF p = "check2" THEN "analyze" ELSE "narrate",
          state |-> [s EXCEPT !.error = None]]
    ELSE [pc |-> IF s.error # None THEN "done"
                 ELSE IF p = "check1" THEN "analyze"
                 ELSE IF p = "check2" THEN "narrate" ELSE "done",
          state |-> s]

\* if state.error: return state   after each stage, and the final return state
AfterStage(p, s) ==
    [pc |-> IF s.error # None THEN "done"
            ELSE IF p = "check1" THEN "analyze"
            ELSE IF p = "check2" THEN "narrate"
            ELSE "done",
     state |-> s]

\* one call of data_harvester.execute(state)
RunHarvest(next) ==
    \E env \in HarvestEnvs(state) :
        /\ harvest_env' = env
        /\ state' = DataHarvesterExecute(state, env)
        /\ fault' = IF HarvestData(state, env).raise
                    THEN [stage |-> "harvest", cause |-> HarvestData(state, env).cause]
                    ELSE fault
        /\ calls' = [calls EXCEPT !.harvest = @ + 1]
        /\ pc' = next
        /\ UNCHANGED <<stage, llm_env, hash_seed, request>>

\* one call of diff_analyst.execute(state)
RunAnalyze(next) ==
    /\ state' = DiffAnalystExecute(state)
    /\ fault' = IF ~AnalystSkips(state) /\ AnalysisRaises(state.raw_data)
                THEN [stage |-> "analyze", cause |-> "division by zero"]
                ELSE fault
    /\ calls' = [calls EXCEPT !.analyze = @ + 1]
    /\ pc' = next
    /\ UNCHANGED <<stage, harvest_env, llm_env, hash_seed, request>>

\* one call of insight_narrator.execute(state); generate_text is called unless
\* the guard returns first
RunNarrate(next) ==
    \E llm \in (IF NarratorSkips(state) THEN {NoLLMEnv} ELSE LLMResponses) :
        /\ llm_env' = llm
        /\ state' = InsightNarratorExecute(state, llm)
        /\ fault' = IF ~NarratorSkips(state) /\ (llm.raise \/ llm.content = None)
                    THEN [stage |-> "narrate",
                          cause |-> IF llm.raise THEN "llm" ELSE "content"]
                    ELSE fault
        /\ calls' = [calls EXCEPT !.narrate = @ + 1,
                                  !.llm = IF NarratorSkips(state) THEN @ ELSE @ + 1]
        /\ pc' = next
        /\ UNCHANGED <<stage, harvest_env, hash_seed, request>>

Init ==
    /\ pc = "harvest"
    /\ stage = "process_request"
    /\ \E t \in Ids, e \in Ids, d \in Periods :
          /\ request = Request(t, e, d)
          /\ state = AgentState(t, e, d)
    /\ harvest_env = NoHarvestEnv
    /\ llm_env = NoLLMEnv
    /\ calls = NoCalls
    /\ fault = None
    /\ hash_seed \in HashSeeds

\* Step 1: state = self.data_harvester.execute(state)
Harvest == pc = "harvest" /\ calls.harvest < MaxCalls /\ RunHarvest("check1")

\* Step 2: state = self.diff_analyst.execute(state)
Analyze == pc = "analyze" /\ calls.analyze < MaxCalls /\ RunAnalyze("check2")

\* Step 3: state = self.insight_narrator.execute(state)
Narrate == pc = "narrate" /\ calls.narrate < MaxCalls /\ RunNarrate("check3")

Check(p) ==
    /\ pc = p
    /\ pc' = AfterStage(p, state).pc
    /\ state' = AfterStage(p, state).state
    /\ UNCHANGED <<stage, harvest_env, llm_env, calls, fault, hash_seed, request>>

Check1 == Check("check1")
Check2 == Check("check2")
Check3 == Check("check3")

Next == Harvest \/ Check1 \/ Analyze \/ Check2 \/ Narrate \/ Check3

Spec == Init /\ [][Next]_vars

\* each stage call and each check returns: the run is sequential and nothing blocks
FairSpec == Spec /\ WF_vars(Next)

-----------------------------------------------------------------------------
(* A stage's execute() called directly on a given AgentState *)

Stages == {"harvest", "analyze", "narrate"}
Groups == {"basic_stats", "dora_metrics", "code_quality", "review_metrics"}

\* the dict d without the key k
Without(d, k) == [x \in DOMAIN d \ {k} |-> d[x]]

WellFormedSummaries ==
    {generate_performance_summary(m, d) : m \in MetricsSamples, d \in Periods}

\* summaries that lack one of the four sub-groups
MalformedSummaries ==
    {Without(generate_performance_summary(m, 7), g) : m \in MetricsSamples, g \in Groups}
    \cup {Without(generate_performance_summary(m, 0), "dora_metrics") : m \in MetricsSamples}

Malformed(d) == d # None /\ \E g \in Groups : g \notin DOMAIN d

SampleAnalysis ==
    DiffAnalysis(generate_performance_summary(
        CHOOSE m \in MetricsSamples : m.commits = 14, 7))

StageStates ==
    { [ AgentState(ids[1], ids[2], 7) EXCEPT
          !.raw_data = rd, !.analysis_results = an,
          !.insights = res[1], !.narrative = res[2], !.error = er ] :
        ids \in {<<None, None>>, <<Some(1), None>>, <<None, Some(1)>>},
        rd \in {None} \cup WellFormedSummaries \cup MalformedSummaries,
        an \in {None, SampleAnalysis},
        res \in {<< <<>>, <<>> >>, << <<"i0">>, <<[part |-> "footer"]>> >>},
        er \in {None, Err("Data harvesting", "storage")} }

StageInit ==
    /\ hash_seed \in HashSeeds
    /\ pc = "stage_call"
    /\ stage \in Stages
    /\ state \in StageStates
    /\ harvest_env = NoHarvestEnv
    /\ llm_env = NoLLMEnv
    /\ calls = NoCalls
    /\ fault = None
    /\ request = None

CallHarvest == pc = "stage_call" /\ stage = "harvest" /\ RunHarvest("stage_returned")
CallAnalyze == pc = "stage_call" /\ stage = "analyze" /\ RunAnalyze("stage_returned")
CallNarrate == pc = "stage_call" /\ stage = "narrate" /\ RunNarrate("stage_returned")

StageNext == CallHarvest \/ CallAnalyze \/ CallNarrate

StageSpec == StageInit /\ [][StageNext]_vars

-----------------------------------------------------------------------------
(* Properties of process_request and of the stages *)

ResultFields(s) == <<s.raw_data, s.analysis_results, s.insights, s.narrative>>

Narrated(s) ==
    /\ s.raw_data # None
    /\ s.analysis_results # None
    /\ Len(s.narrative) > 0

\* the run took the bootstrap branch of _get_overall_stats and listed the repositories
BootstrapHarvested ==
    /\ stage = "process_request"
    /\ calls.harvest = 1
    /\ HarvestPath(state) = "overall"
    /\ BootstrapPath(harvest_env)
    /\ ~harvest_env.user_raise

RECURSIVE SumCompleted(_, _, _)
\* sum of a sync count over the repositories that were processed without failure
SumCompleted(repos, part, field) ==
    IF Len(repos) = 0 THEN 0
    ELSE (IF RepoFailed(Head(repos)) THEN 0
          ELSE IF part = "sync" THEN Head(repos).sync[field]
          ELSE SumField(Head(repos).commits, field))
         + SumCompleted(Tail(repos), part, field)

\* C1: once error is set, raw_data, analysis_results, insights and narrative
\* are not changed by any later step of the run, the return included.
C1_ShortCircuit ==
    [][state.error # None => ResultFields(state') = ResultFields(state)]_vars

\* a run that failed after Harvest had stored raw_data, and has returned
C1_Witness ==
    pc = "done" /\ state.error # None /\ state.raw_data # None

\* C2 as stated: a run that returns without error has raw_data, analysis_results,
\* at least one insight and a non-empty narrative.
C2_AllPopulated ==
    (pc = "done" /\ state.error = None) =>
        /\ state.raw_data # None
        /\ state.analysis_results # None
        /\ Len(state.insights) > 0
        /\ Len(state.narrative) > 0

\* C2 amended: a run that returns without error has raw_data, analysis_results
\* and a non-empty narrative; insights holds at most 5 items and may be empty,
\* every insight appearing as a numbered line of the narrative.
C2_PopulatedExceptInsights ==
    (pc = "done" /\ state.error = None) =>
        /\ state.raw_data # None
        /\ state.analysis_results # None
        /\ Len(state.narrative) > 0
        /\ Len(state.insights) <= 5
        /\ \A i \in 1..Len(state.insights) :
             \E j \in 1..Len(state.narrative) :
                /\ state.narrative[j].part = "insight"
                /\ state.narrative[j].number = i
                /\ state.narrative[j].text = state.insights[i]

\* a successful run whose response text held no qualifying line or sentence
C2_Witness ==
    /\ pc = "done" /\ state.error = None
    /\ calls.llm = 1 /\ Len(state.insights) = 0 /\ Len(state.narrative) > 0

\* C3: whatever collaborator or computation fails inside a stage, the failure
\* is recorded in state.error, and process_request returns.
C3_NoFailureEscapes ==
    /\ [](fault # None => state.error # None)
    /\ <>(pc = "done")

\* the text generator raised and the run returned with error set
C3_Witness ==
    pc = "done" /\ fault # None /\ fault.cause = "llm" /\ state.error # None

StageName(stg) ==
    IF stg = "harvest" THEN "Data harvesting"
    ELSE IF stg = "analyze" THEN "Diff analysis"
    ELSE "Insight generation"

\* C4: a failing stage sets error to "<stage> failed: <cause>" and leaves its own
\* output and every downstream field unset; insights and narrative are set
\* together or not at all.
C4_FailureLeavesUnset ==
    /\ (Len(state.insights) > 0 => Len(state.narrative) > 0)
    /\ (Len(state.narrative) = 0 => Len(state.insights) = 0)
    /\ fault # None =>
        /\ state.error = Err(StageName(fault.stage), fault.cause)
        /\ Len(state.insights) = 0
        /\ Len(state.narrative) = 0
        /\ fault.stage \in {"harvest", "analyze"} => state.analysis_results = None
        /\ fault.stage = "harvest" => state.raw_data = None

\* Analyze failed on a harvested summary
C4_Witness ==
    /\ pc = "done" /\ fault # None /\ fault.stage = "analyze"
    /\ state.raw_data # None /\ state.analysis_results = None

\* C5: each stage, called on a state whose error is set, returns it unchanged.
C5_StagesPassThrough ==
    [][(pc = "stage_call" /\ state.error # None) => state' = state]_vars

\* C6: narrative only with analysis_results, analysis_results only with raw_data,
\* no field once set is changed or unset, and a run ends either Narrated without
\* error or with error set.
C6_ForwardOnly ==
    /\ [](/\ Len(state.narrative) > 0 => state.analysis_results # None
          /\ state.analysis_results # None => state.raw_data # None
          /\ pc = "done" => (state.error # None \/ Narrated(state)))
    /\ [][/\ state.raw_data # None => state'.raw_data = state.raw_data
          /\ state.analysis_results # None =>
                state'.analysis_results = state.analysis_results
          /\ Len(state.narrative) > 0 => state'.narrative = state.narrative
          /\ state.error # None => state'.error = state.error]_vars

\* a run that ended Narrated
C6_Witness ==
    pc = "done" /\ state.error = None /\ Narrated(state) /\ calls.narrate = 1

\* C7: every stage and the text generator are invoked at most once, the text
\* generator only with raw_data and analysis_results stored, and after a failure
\* no further call is made: the next step returns.
C7_NoRetry ==
    /\ [](/\ calls.harvest <= 1 /\ calls.analyze <= 1
          /\ calls.narrate <= 1 /\ calls.llm <= 1
          /\ calls.llm = 1 => (state.raw_data # None /\ state.analysis_results # None))
    /\ [][fault # None => (calls' = calls /\ pc' = "done")]_vars

\* the text generator was called once, raised, and the run ended
C7_Witness ==
    /\ pc = "done" /\ fault # None /\ fault.cause = "llm"
    /\ calls.llm = 1 /\ state.error # None

AnalyzeCallOnMalformed ==
    /\ pc = "stage_call" /\ stage = "analyze"
    /\ state.error = None
    /\ Malformed(state.raw_data)

\* C8 as stated: Analyze on a raw_data lacking a sub-group sets error and stores
\* no analysis_results.
C8_MalformedSetsError ==
    [][AnalyzeCallOnMalformed =>
        (state'.error # None /\ state'.analysis_results = state.analysis_results)]_vars

\* C8 amended: Analyze on a raw_data lacking a sub-group, period_days not 0, sets
\* no error and stores an analysis_results in which the metrics of the missing
\* group took their defaults.
C8_MalformedUsesDefaults ==
    [][(AnalyzeCallOnMalformed /\ Get(state.raw_data, "period_days", 7) # 0) =>
        /\ state'.error = None
        /\ state'.analysis_results # None
        /\ DOMAIN state'.analysis_results =
             {"churn_analysis", "risk_assessment", "quality_indicators", "trend_analysis"}
        /\ LET a == state'.analysis_results
               risks == {a.risk_assessment.identified_risks[i] :
                            i \in 1..Len(a.risk_assessment.identified_risks)}
           IN  /\ "code_quality" \notin DOMAIN state.raw_data =>
                    (a.churn_analysis.churn_level = "LOW" /\ RiskChurn \notin risks)
               /\ "dora_metrics" \notin DOMAIN state.raw_data =>
                    /\ REq(a.quality_indicators.quality_score, RInt(100))
                    /\ RiskFailureRate \notin risks /\ RiskLeadTime \notin risks
               /\ "review_metrics" \notin DOMAIN state.raw_data =>
                    /\ REq(a.quality_indicators.collaboration_score, RInt(0))
                    /\ RiskReview \notin risks
               /\ "basic_stats" \notin DOMAIN state.raw_data =>
                    REq(a.quality_indicators.velocity_score, RInt(0))]_vars

\* Analyze returned an analysis for a raw_data without code_quality
C8_Witness ==
    /\ pc = "stage_returned" /\ stage = "analyze" /\ calls.analyze = 1
    /\ Malformed(state.raw_data) /\ "code_quality" \notin DOMAIN state.raw_data
    /\ state.error = None
    /\ state.analysis_results # None
    /\ state.analysis_results.churn_analysis.churn_level = "LOW"

\* C9: in the bootstrap path Harvest sets no error and stores a summary whichever
\* repositories fail, and the repositories after a failed one still count: the
\* line totals are those of all repositories processed without failure.
C9_PartialFailureTolerated ==
    BootstrapHarvested =>
        /\ (fault = None \/ fault.stage # "harvest")
        /\ state.raw_data # None
        /\ state.raw_data.basic_stats.lines_added =
              SumCompleted(harvest_env.repos, "commits", "additions")
        /\ state.raw_data.basic_stats.files_changed =
              SumCompleted(harvest_env.repos, "commits", "changed_files")
        /\ state.raw_data.basic_stats.total_commits >=
              SumCompleted(harvest_env.repos, "sync", "commits_stored")

\* the first repository failed and the second one was still counted
C9_Witness ==
    /\ BootstrapHarvested /\ pc = "check1"
    /\ Len(harvest_env.repos) = 2
    /\ RepoFailed(harvest_env.repos[1]) /\ ~RepoFailed(harvest_env.repos[2])
    /\ state.error = None
    /\ state.raw_data.basic_stats.lines_added > 0

\* C10: the totals of the bootstrap summary are the sums over exactly the
\* repositories processed without failure.
C10_FailedRepoSkippedWhole ==
    BootstrapHarvested =>
        /\ state.raw_data.basic_stats.total_commits =
              SumCompleted(harvest_env.repos, "sync", "commits_stored")
        /\ state.raw_data.basic_stats.total_pull_requests =
              SumCompleted(harvest_env.repos, "sync", "pull_requests_stored")
        /\ state.raw_data.basic_stats.lines_added =
              SumCompleted(harvest_env.repos, "commits", "additions")
        /\ state.raw_data.basic_stats.lines_deleted =
              SumCompleted(harvest_env.repos, "commits", "deletions")
        /\ state.raw_data.basic_stats.files_changed =
              SumCompleted(harvest_env.repos, "commits", "changed_files")

-----------------------------------------------------------------------------
(* The Analyze stage applied to raw summaries of any content, once and again *)

\* dicts of the shape generate_performance_summary returns, with
\* change_failure_rate, code_quality.risk_score, lead_time_days and
\* review_participation_rate around the cut points and far beyond them
RawSummaries ==
    LET FailureRates == {RInt(0), Rat(50, 7), RInt(15), Rat(31, 2), RInt(20), RInt(100000)}
        RiskScores == {RInt(0), RInt(50), RInt(60), RInt(61), RInt(100000)}
        LeadTimes == {RInt(0), RInt(2), RInt(7), Rat(71, 10), RInt(100000)}
        Participations == {RInt(69), Rat(699, 10), RInt(70), RInt(80), RInt(100)}
        \* total_commits, period_days, total_churn and churn_rate
        Shapes ==
          { [commits |-> 0,   days |-> 7,  total_churn |-> 0,     churn_rate |-> RInt(0)],
            [commits |-> 1,   days |-> 7,  total_churn |-> 100,   churn_rate |-> RInt(100)],
            [commits |-> 1,   days |-> 40, total_churn |-> 6000,  churn_rate |-> Rat(1001, 10)],
            [commits |-> 5,   days |-> 7,  total_churn |-> 750,   churn_rate |-> RInt(150)],
            [commits |-> 70,  days |-> 7,  total_churn |-> 14000, churn_rate |-> RInt(200)],
            [commits |-> 100, days |-> 1,  total_churn |-> 20100, churn_rate |-> RInt(201)] }
    IN  { [ period_days |-> sh.days,
            basic_stats |->
              [ total_commits |-> sh.commits, total_pull_requests |-> 2,
                lines_added |-> sh.total_churn, lines_deleted |-> 0,
                files_changed |-> sh.commits ],
            dora_metrics |->
              [ lead_time_days |-> lt, deployment_frequency |-> RInt(1),
                change_failure_rate |-> cfr, mttr_hours |-> RInt(4) ],
            code_quality |->
              [ total_churn |-> sh.total_churn, churn_rate |-> sh.churn_rate,
                risk_score |-> rs, high_risk_files |-> 0 ],
            review_metrics |->
              [ avg_review_time_hours |-> Rat(17, 2), review_participation_rate |-> rp,
                pr_cycle_time_hours |-> RInt(24), approval_rate |-> RInt(92) ] ] :
          sh \in Shapes, cfr \in FailureRates, rs \in RiskScores,
          lt \in LeadTimes, rp \in Participations }

\* what the Metrics Engine computed for the stored scopes over a week
EngineSummaries == {generate_performance_summary(m, 7) : m \in MetricsSamples}

AnalysisInit ==
    /\ hash_seed \in HashSeeds
    /\ pc = "analysis_call"
    /\ stage = "analyze"
    /\ \E rd \in RawSummaries \cup EngineSummaries :
          state = [AgentState(None, None, rd.period_days) EXCEPT !.raw_data = rd]
    /\ harvest_env = NoHarvestEnv
    /\ llm_env = NoLLMEnv
    /\ calls = NoCalls
    /\ fault = None
    /\ request = None

\* diff_analyst.execute(state)
AnalyzeOnce == pc = "analysis_call" /\ RunAnalyze("analyzed_once")

\* the interpreter process ends and a new one starts, with its own hash seed;
\* the AgentState is handed over as it is
Restart ==
    /\ pc = "analyzed_once"
    /\ pc' = "restarted"
    /\ hash_seed' \in HashSeeds
    /\ UNCHANGED <<state, stage, harvest_env, llm_env, calls, fault, request>>

\* diff_analyst.execute(state) on the state the first call returned
AnalyzeAgain == pc \in {"analyzed_once", "restarted"} /\ RunAnalyze("analyzed_twice")

AnalysisNext == AnalyzeOnce \/ Restart \/ AnalyzeAgain

AnalysisSpec == AnalysisInit /\ [][AnalysisNext]_vars

\* Analyze has returned an analysis of state.raw_data
Analyzed ==
    /\ stage = "analyze"
    /\ pc \in {"analyzed_once", "restarted", "analyzed_twice"}
    /\ state.analysis_results # None

\* the four metrics the risk assessment reads from state.raw_data
InFailureRate == state.raw_data.dora_metrics.change_failure_rate
InLeadTime == state.raw_data.dora_metrics.lead_time_days
InRiskScore == state.raw_data.code_quality.risk_score
InParticipation == state.raw_data.review_metrics.review_participation_rate

\* C12: overall_risk_level is HIGH exactly when change_failure_rate > 15 or
\* risk_score > 60, MODERATE exactly when neither holds and lead_time_days > 7 or
\* review_participation_rate < 70, and LOW otherwise; a HIGH is never downgraded.
C12_RiskLevel ==
    Analyzed =>
        LET level == state.analysis_results.risk_assessment.overall_risk_level
            high == RGtInt(InFailureRate, 15) \/ RGtInt(InRiskScore, 60)
            moderate == ~high /\ (RGtInt(InLeadTime, 7) \/ RLtInt(InParticipation, 70))
        IN  /\ level \in {"LOW", "MODERATE", "HIGH"}
            /\ (level = "HIGH") <=> high
            /\ (level = "MODERATE") <=> moderate
            /\ (level = "LOW") <=> (~high /\ ~moderate)

\* a HIGH reached by the failure-rate check, followed by the two MODERATE checks
\* both triggering
C12_Witness ==
    /\ Analyzed
    /\ RGtInt(InFailureRate, 15) /\ ~RGtInt(InRiskScore, 60)
    /\ RGtInt(InLeadTime, 7) /\ RLtInt(InParticipation, 70)
    /\ state.analysis_results.risk_assessment.overall_risk_level = "HIGH"

\* C13: with non-negative change_failure_rate, risk_score and lead_time_days of
\* any magnitude, the composite risk_score lies in [0, 100].
C13_CompositeInRange ==
    (/\ Analyzed
     /\ RGeInt(InFailureRate, 0) /\ RGeInt(InRiskScore, 0) /\ RGeInt(InLeadTime, 0))
    => /\ RGeInt(state.analysis_results.risk_assessment.risk_score, 0)
       /\ RLe(state.analysis_results.risk_assessment.risk_score, RInt(100))

\* all three inputs far beyond their usual range, the score clamped to 100
C13_Witness ==
    /\ Analyzed
    /\ RGtInt(InFailureRate, 1000) /\ RGtInt(InRiskScore, 1000) /\ RGtInt(InLeadTime, 1000)
    /\ REq(state.analysis_results.risk_assessment.risk_score, RInt(100))

\* C14: churn_level is HIGH only if churn_rate > 200, MODERATE exactly when
\* 100 < churn_rate <= 200, and LOW otherwise.
C14_ChurnLevel ==
    Analyzed =>
        LET churn_rate == state.raw_data.code_quality.churn_rate
            level == state.analysis_results.churn_analysis.churn_level
        IN  /\ (level = "HIGH") <=> RGtInt(churn_rate, 200)
            /\ (level = "MODERATE") <=> (RGtInt(churn_rate, 100) /\ ~RGtInt(churn_rate, 200))
            /\ (level = "LOW") <=> ~RGtInt(churn_rate, 100)

\* the boundaries: churn_rate = 200 analysed as MODERATE
C14_Witness ==
    /\ Analyzed
    /\ REq(state.raw_data.code_quality.churn_rate, RInt(200))
    /\ state.analysis_results.churn_analysis.churn_level = "MODERATE"

\* C19: identified_risks is never empty; it holds one message per triggered
\* condition, in the order failure-rate, lead-time, churn-risk, review-participation,
\* and it is the single message RiskNone exactly when no condition triggers.
C19_IdentifiedRisks ==
    Analyzed =>
        LET risks == state.analysis_results.risk_assessment.identified_risks
            Order == <<RiskFailureRate, RiskLeadTime, RiskChurn, RiskReview>>
            Triggered == << RGtInt(InFailureRate, 15), RGtInt(InLeadTime, 7),
                            RGtInt(InRiskScore, 60), RLtInt(InParticipation, 70) >>
            count == Cardinality({k \in 1..4 : Triggered[k]})
        IN  /\ Len(risks) >= 1
            /\ \A k \in 1..4 : Triggered[k] <=> \E i \in 1..Len(risks) : risks[i] = Order[k]
            /\ Len(risks) = (IF count = 0 THEN 1 ELSE count)
            /\ \A i, j \in 1..Len(risks) :
                  i < j => \E a, b \in 1..4 : a < b /\ risks[i] = Order[a] /\ risks[j] = Order[b]
            /\ (count = 0) <=> (risks = <<RiskNone>>)
            /\ (count = 0) <=> (\E i \in 1..Len(risks) : risks[i] = RiskNone)

\* the lead-time and the churn-risk conditions trigger together, alone
C19_Witness ==
    /\ Analyzed
    /\ ~RGtInt(InFailureRate, 15) /\ RGtInt(InLeadTime, 7)
    /\ RGtInt(InRiskScore, 60) /\ ~RLtInt(InParticipation, 70)
    /\ state.analysis_results.risk_assessment.identified_risks = <<RiskLeadTime, RiskChurn>>

\* change_failure_rate = 20, risk_score = 50, lead_time_days = 2, participation = 80
Scenario75 ==
    /\ REq(InFailureRate, RInt(20)) /\ REq(InRiskScore, RInt(50))
    /\ REq(InLeadTime, RInt(2)) /\ REq(InParticipation, RInt(80))

\* C20: the composite risk_score equals min(100, 2 * change_failure_rate +
\* 0.5 * risk_score + min(50, 5 * lead_time_days)); the inputs 20, 50, 2 and a
\* participation of 80 give level HIGH, the failure-rate message and the score 75.
C20_CompositeFormula ==
    Analyzed =>
        LET ra == state.analysis_results.risk_assessment
            weighted == RAdd(RAdd(RMulInt(InFailureRate, 2), RHalf(InRiskScore)),
                             RMin(RInt(50), RMulInt(InLeadTime, 5)))
        IN  /\ REq(ra.risk_score, RMin(RInt(100), weighted))
            /\ Scenario75 =>
                  /\ ra.overall_risk_level = "HIGH"
                  /\ \E i \in 1..Len(ra.identified_risks) :
                        ra.identified_risks[i] = RiskFailureRate
                  /\ REq(ra.risk_score, RInt(75))

\* the scenario analysed, with the score 40 + 25 + 10
C20_Witness ==
    /\ Analyzed
    /\ Scenario75
    /\ state.analysis_results.risk_assessment.risk_score = RInt(75)

\* an analysis with its mitigation_strategies taken as a set
Unordered(an) ==
    [an EXCEPT !.risk_assessment.mitigation_strategies = {@[i] : i \in 1..Len(@)}]

\* C16 as stated: a second Analyze on the same raw_data returns the same
\* analysis_results in every field, the order of mitigation_strategies included,
\* and Analyze leaves raw_data as it was.
C16_Idempotent ==
    [][ /\ (pc' \in {"analyzed_once", "analyzed_twice"} => state'.raw_data = state.raw_data)
        /\ (pc' = "analyzed_twice" => state'.analysis_results = state.analysis_results)
      ]_vars

\* C16 amended: a second Analyze on the same raw_data leaves raw_data as it was
\* and returns the same analysis_results in every field, with the same
\* mitigation_strategies; their order is the same when both calls run in the
\* same interpreter process and may differ after a restart.
C16_IdempotentUpToSetOrder ==
    [][ /\ (pc' \in {"analyzed_once", "analyzed_twice"} => state'.raw_data = state.raw_data)
        /\ (pc' = "analyzed_twice" =>
              /\ Unordered(state'.analysis_results) = Unordered(state.analysis_results)
              /\ Len(state'.analysis_results.risk_assessment.mitigation_strategies)
                   = Len(state.analysis_results.risk_assessment.mitigation_strategies)
              /\ state'.error = state.error)
        /\ (pc = "analyzed_once" /\ pc' = "analyzed_twice" => state' = state)
      ]_vars

\* a second analysis of a summary with two triggered risks and four strategies
C16_Witness ==
    /\ stage = "analyze" /\ pc = "analyzed_twice" /\ calls.analyze = 2
    /\ state.error = None
    /\ Len(state.analysis_results.risk_assessment.identified_risks) = 2
    /\ Len(state.analysis_results.risk_assessment.mitigation_strategies) = 4

\* the inputs of the quality indicators, and the three scores before rounding
InCommits == state.raw_data.basic_stats.total_commits
InDays == state.raw_data.period_days
Velocity == RMin(RInt(100), RMulInt(Rat(InCommits, InDays), 10))
Quality == RMax(RInt(0), RSub(RInt(100), RMulInt(InFailureRate, 5)))
Collaboration == InParticipation
Mean3 == RDivInt(RAdd(RAdd(Velocity, Quality), Collaboration), 3)

InRange(x) == RGeInt(x, 0) /\ RLe(x, RInt(100))

\* total_commits >= 0, period_days >= 1, change_failure_rate >= 0 and
\* review_participation_rate in [0, 100], analysed
QualityCase ==
    /\ Analyzed
    /\ InCommits >= 0 /\ InDays >= 1
    /\ RGeInt(InFailureRate, 0) /\ InRange(InParticipation)

C27_GradeMatchesReported ==
    QualityCase =>
        LET qi == state.analysis_results.quality_indicators
            reported == qi.overall_score
        IN  qi.grade = (IF RGeInt(reported, 90) THEN "A"
                        ELSE IF RGeInt(reported, 80) THEN "B"
                        ELSE IF RGeInt(reported, 70) THEN "C"
                        ELSE IF RGeInt(reported, 60) THEN "D"
                        ELSE "F")

\* C28: identified_risks holds RiskNone exactly when the level is LOW,
\* mitigation_strategies is empty exactly when the level is LOW, and otherwise it
\* holds two strategies per triggered condition, all distinct.
C28_RisksAndMitigation ==
    Analyzed =>
        LET ra == state.analysis_results.risk_assessment
            risks == ra.identified_risks
            ms == ra.mitigation_strategies
            low == ra.overall_risk_level = "LOW"
            triggered == Cardinality({k \in 1..4 :
                            << RGtInt(InFailureRate, 15), RGtInt(InLeadTime, 7),
                               RGtInt(InRiskScore, 60), RLtInt(InParticipation, 70) >>[k]})
        IN  /\ (\E i \in 1..Len(risks) : risks[i] = RiskNone) <=> low
            /\ (Len(ms) = 0) <=> low
            /\ Len(ms) = 2 * triggered
            /\ \A i, j \in 1..Len(ms) : i # j => ms[i] # ms[j]
            /\ ~low => triggered >= 1

\* the lead-time and the review conditions trigger, alone: four strategies
C28_Witness ==
    /\ Analyzed
    /\ state.analysis_results.risk_assessment.overall_risk_level = "MODERATE"
    /\ state.analysis_results.risk_assessment.identified_risks = <<RiskLeadTime, RiskReview>>
    /\ Len(state.analysis_results.risk_assessment.mitigation_strategies) = 4

\* C29: risk_threshold_exceeded implies the level HIGH, churn_level HIGH implies
\* large_changes, and without large_changes the churn_level is LOW or MODERATE.
C29_FlagsConsistent ==
    Analyzed =>
        LET ca == state.analysis_results.churn_analysis
            ra == state.analysis_results.risk_assessment
        IN  /\ ca.patterns.risk_threshold_exceeded => ra.overall_risk_level = "HIGH"
            /\ ca.churn_level = "HIGH" => ca.patterns.large_changes
            /\ ~ca.patterns.large_changes => ca.churn_level \in {"LOW", "MODERATE"}

\* a churn_rate just above 200 and a risk_score far above 70, with no other
\* condition triggering
C29_Witness ==
    /\ Analyzed
    /\ REq(state.raw_data.code_quality.churn_rate, RInt(201))
    /\ RGtInt(InRiskScore, 70) /\ ~RGtInt(InFailureRate, 15)
    /\ state.analysis_results.churn_analysis.churn_level = "HIGH"
    /\ state.analysis_results.churn_analysis.patterns.large_changes
    /\ state.analysis_results.churn_analysis.patterns.risk_threshold_exceeded
    /\ state.analysis_results.risk_assessment.overall_risk_level = "HIGH"

-----------------------------------------------------------------------------
(* _score_to_grade applied to two overall scores *)

GradeInit ==
    /\ hash_seed \in HashSeeds
    /\ pc = "grade_call"
    /\ stage = "grade"
    /\ \E a, b \in \* overall scores in [0, 100], at and next to the cut points
            { RInt(0), RInt(45), Rat(599, 10), Rat(1199, 20), RInt(60), Rat(6999, 100),
              RInt(70), Rat(799, 10), RInt(80), Rat(1799, 20), RInt(90), RInt(100) } :
          state = [scores |-> <<a, b>>, grades |-> None]
    /\ harvest_env = NoHarvestEnv
    /\ llm_env = NoLLMEnv
    /\ calls = NoCalls
    /\ fault = None
    /\ request = None

\* self._score_to_grade(overall_score), for each of the two scores
Grade ==
    /\ pc = "grade_call"
    /\ pc' = "graded"
    /\ state' = [state EXCEPT !.grades = << score_to_grade(state.scores[1]),
                                            score_to_grade(state.scores[2]) >>]
    /\ UNCHANGED <<stage, harvest_env, llm_env, calls, fault, hash_seed, request>>

GradeNext == Grade

GradeSpec == GradeInit /\ [][GradeNext]_vars

\* A is the best grade and F the worst
GradeRank(g) ==
    IF g = "A" THEN 4 ELSE IF g = "B" THEN 3 ELSE IF g = "C" THEN 2
    ELSE IF g = "D" THEN 1 ELSE 0

\* C15: every overall score in [0, 100] gets exactly one grade of A, B, C, D, F,
\* with >= 90 A, >= 80 B, >= 70 C, >= 60 D and F below, and a higher score never
\* gets a worse grade than a lower one.
C15_GradeTotalMonotonic ==
    (stage = "grade" /\ pc = "graded") =>
        /\ \A k \in 1..2 :
              LET s == state.scores[k]
                  g == state.grades[k]
              IN  /\ g \in {"A", "B", "C", "D", "F"}
                  /\ (g = "A") <=> RGeInt(s, 90)
                  /\ (g = "B") <=> (RGeInt(s, 80) /\ ~RGeInt(s, 90))
                  /\ (g = "C") <=> (RGeInt(s, 70) /\ ~RGeInt(s, 80))
                  /\ (g = "D") <=> (RGeInt(s, 60) /\ ~RGeInt(s, 70))
                  /\ (g = "F") <=> ~RGeInt(s, 60)
        /\ RLe(state.scores[1], state.scores[2]) =>
              GradeRank(state.grades[1]) <= GradeRank(state.grades[2])

\* 89.95 graded B next to 90 graded A
C15_Witness ==
    /\ stage = "grade" /\ pc = "graded"
    /\ state.scores = <<Rat(1799, 20), RInt(90)>>
    /\ state.grades = <<"B", "A">>

-----------------------------------------------------------------------------
(* _parse_insights_from_response applied to response texts of any content *)

\* texts whose lines are each of one of three kinds (a numbered line with enough
\* text, a line of prose without a marker, a bulleted line whose cleaned text has
\* exactly 20 characters) and whose pieces between full stops are none, some that
\* qualify between some that do not, or six that qualify
ResponseTexts ==
    LET LineOfKind(kind, i) ==
            IF kind = "numbered" THEN Line(TRUE, 30, 27, <<"line", i>>)
            ELSE IF kind = "prose" THEN Line(FALSE, 40, 40, <<"line", i>>)
            ELSE Line(TRUE, 24, 20, <<"line", i>>)
        SentenceLists ==
          { <<>>,
            << Sentence(40, FALSE, <<"sentence", 1>>), Sentence(31, TRUE, <<"sentence", 2>>),
               Sentence(30, TRUE, <<"sentence", 3>>), Sentence(52, TRUE, <<"sentence", 4>>) >>,
            [i \in 1..6 |-> Sentence(35, TRUE, <<"sentence", i>>)] }
    IN  { [lines |-> [i \in 1..Len(kinds) |-> LineOfKind(kinds[i], i)], sentences |-> ss] :
            kinds \in SeqsUpTo({"numbered", "prose", "bullet20"}, MaxLines),
            ss \in SentenceLists }

ParseInit ==
    /\ hash_seed \in HashSeeds
    /\ pc = "parse_call"
    /\ stage = "parse"
    /\ \E c \in ResponseTexts : state = [content |-> c, insights |-> None]
    /\ harvest_env = NoHarvestEnv
    /\ llm_env = NoLLMEnv
    /\ calls = NoCalls
    /\ fault = None
    /\ request = None

\* insights = self._parse_insights_from_response(response.content)
Parse ==
    /\ pc = "parse_call"
    /\ pc' = "parsed"
    /\ state' = [state EXCEPT !.insights = parse_insights_from_response(state.content)]
    /\ UNCHANGED <<stage, harvest_env, llm_env, calls, fault, hash_seed, request>>

ParseNext == Parse

ParseSpec == ParseInit /\ [][ParseNext]_vars

\* the positions of the lines of the text that qualify
QualifyingLines ==
    {i \in 1..Len(state.content.lines) : LineQualifies(state.content.lines[i])}

\* C17: the parser returns at most 5 insights, the first qualifying items of the
\* text in the order they occur; the text decides the list; sentences are used
\* only when no line qualifies.
C17_ParsePrefix ==
    (stage = "parse" /\ pc = "parsed") =>
        LET ins == state.insights
            QualifyingSentences ==
                {i \in 1..Len(state.content.sentences) :
                    SentenceQualifies(state.content.sentences[i])}
            \* the k-th smallest member of the set of positions S
            Kth(S, k) == CHOOSE i \in S : Cardinality({j \in S : j < i}) = k - 1
            from_lines == QualifyingLines # {}
            positions == IF from_lines THEN QualifyingLines ELSE QualifyingSentences
            items == IF from_lines THEN state.content.lines ELSE state.content.sentences
        IN  /\ Len(ins) <= 5
            /\ Len(ins) = Min(5, Cardinality(positions))
            /\ \A k \in 1..Len(ins) : ins[k] = items[Kth(positions, k)].text
            /\ (\E k \in 1..Len(ins) : ins[k][1] = "sentence") => QualifyingLines = {}

\* six lines qualify, with other lines between them or not: five are returned
C17_Witness ==
    /\ stage = "parse" /\ pc = "parsed"
    /\ Cardinality(QualifyingLines) = 6
    /\ Len(state.insights) = 5
    /\ state.insights[5] = <<"line", 5>>

-----------------------------------------------------------------------------
(* Two process_request calls running concurrently on the one agent_orchestrator *)

Runs == {1, 2}

\* the responses storage and the engine give to one run
ConcHarvestEnvs(s) ==
    IF HarvestPath(s) = "overall"
    THEN {e \in OverallEnvs : Len(e.repos) = 0 /\ Len(e.teams) <= 1
                               /\ e.seed = "lo" /\ ~e.user_raise}
    ELSE ScopedEnvs

\* an orchestrator that keeps the AgentState of the latest request in a field of
\* its own, which every running call then reads
HandedFromField(states, r) == states[2]

\* the AgentState a stage of run r is handed: the local variable of that call of
\* process_request; the agents hold no AgentState of their own
Handed(states, r) == states[r]

ConcInit ==
    /\ hash_seed \in HashSeeds
    /\ stage = "concurrent"
    /\ request \in [Runs -> {Request(Some(1), None, 7), Request(None, None, 7),
                            Request(None, None, 0)}]
    /\ pc = [r \in Runs |-> "harvest"]
    /\ state = [r \in Runs |->
                  AgentState(request[r].team_id, request[r].engineer_id,
                             request[r].time_period)]
    /\ harvest_env = [r \in Runs |-> NoHarvestEnv]
    /\ llm_env = [r \in Runs |-> NoLLMEnv]
    /\ calls = [r \in Runs |-> NoCalls]
    /\ fault = [r \in Runs |-> None]

\* run r: state = self.data_harvester.execute(state)
ConcHarvest(r) ==
    /\ pc[r] = "harvest"
    /\ \E env \in ConcHarvestEnvs(Handed(state, r)) :
          /\ harvest_env' = [harvest_env EXCEPT ![r] = env]
          /\ state' = [state EXCEPT ![r] = DataHarvesterExecute(Handed(state, r), env)]
    /\ pc' = [pc EXCEPT ![r] = "check1"]
    /\ calls' = [calls EXCEPT ![r].harvest = @ + 1]
    /\ UNCHANGED <<stage, llm_env, fault, hash_seed, request>>

\* run r: state = self.diff_analyst.execute(state)
ConcAnalyze(r) ==
    /\ pc[r] = "analyze"
    /\ state' = [state EXCEPT ![r] = DiffAnalystExecute(Handed(state, r))]
    /\ pc' = [pc EXCEPT ![r] = "check2"]
    /\ calls' = [calls EXCEPT ![r].analyze = @ + 1]
    /\ UNCHANGED <<stage, harvest_env, llm_env, fault, hash_seed, request>>

\* run r: state = self.insight_narrator.execute(state)
ConcNarrate(r) ==
    /\ pc[r] = "narrate"
    /\ \E llm \in (IF NarratorSkips(Handed(state, r)) THEN {NoLLMEnv}
                    ELSE { [raise |-> TRUE, content |-> None],
                           [raise |-> FALSE, content |-> ContentStructured],
                           [raise |-> FALSE, content |-> ContentBare] }) :
          /\ llm_env' = [llm_env EXCEPT ![r] = llm]
          /\ state' = [state EXCEPT ![r] = InsightNarratorExecute(Handed(state, r), llm)]
    /\ pc' = [pc EXCEPT ![r] = "check3"]
    /\ calls' = [calls EXCEPT ![r].narrate = @ + 1]
    /\ UNCHANGED <<stage, harvest_env, fault, hash_seed, request>>

\* run r: if state.error: return state, and the final return state
ConcCheck(r) ==
    /\ pc[r] \in {"check1", "check2", "check3"}
    /\ pc' = [pc EXCEPT ![r] = AfterStage(pc[r], state[r]).pc]
    /\ state' = [state EXCEPT ![r] = AfterStage(pc[r], state[r]).state]
    /\ UNCHANGED <<stage, harvest_env, llm_env, calls, fault, hash_seed, request>>

ConcNext ==
    \E r \in Runs : ConcHarvest(r) \/ ConcAnalyze(r) \/ ConcNarrate(r) \/ ConcCheck(r)

ConcSpec == ConcInit /\ [][ConcNext]_vars

\* what process_request returns for a request when it runs alone and the
\* collaborators answer henv and llm
RunAlone(req, henv, llm) ==
    LET s0 == AgentState(req.team_id, req.engineer_id, req.time_period)
        s1 == DataHarvesterExecute(s0, henv)
        s2 == DiffAnalystExecute(s1)
    IN  IF s1.error # None THEN s1
        ELSE IF s2.error # None THEN s2
        ELSE InsightNarratorExecute(s2, llm)

\* C11: whatever the interleaving of the stage steps of two concurrent runs, each
\* run returns the state it would return alone for the same collaborator responses.
C11_NoInterference ==
    stage = "concurrent" =>
        \A r \in Runs :
            pc[r] = "done" => state[r] = RunAlone(request[r], harvest_env[r], llm_env[r])

\* both runs returned, one narrated and one failed, their requests different
C11_Witness ==
    /\ stage = "concurrent"
    /\ pc[1] = "done" /\ pc[2] = "done"
    /\ request[1] # request[2]
    /\ state[1].error = None /\ Len(state[1].narrative) > 0
    /\ state[2].error # None

-----------------------------------------------------------------------------
(* The Metrics Engine summarising the rows storage returns, for two windows *)

EngineInit ==
    LET \* rows of the commit table in scope: one of 100 lines, one of exactly 300,
        \* one of 301, one of 9000 committed after every deployment
        CommitRows ==
          { [committed_at |-> 0, repository_id |-> 1, additions |-> 60, deletions |-> 40,
             changed_files |-> 1],
            [committed_at |-> 3, repository_id |-> 1, additions |-> 200, deletions |-> 100,
             changed_files |-> 2],
            [committed_at |-> 1, repository_id |-> 2, additions |-> 301, deletions |-> 0,
             changed_files |-> 3],
            [committed_at |-> 9, repository_id |-> 1, additions |-> 5000, deletions |-> 4000,
             changed_files |-> 9] }
        \* rows of the deployment table in the window
        DeploymentRows ==
          { [id |-> 1, deployed_at |-> 3, repository_id |-> 1, status |-> "success"],
            [id |-> 2, deployed_at |-> 5, repository_id |-> 1, status |-> "failure"],
            [id |-> 3, deployed_at |-> 4, repository_id |-> 2, status |-> "success"] }
        \* query.all() has no ORDER BY: any subset of the rows in any order
        DeploymentLists ==
          {ds \in SeqsUpTo(DeploymentRows, 3) : \A i, j \in 1..Len(ds) : i # j => ds[i] # ds[j]}
        \* rows of the incident table: two name deployment 1, one names deployment 3,
        \* one names a deployment outside the window, one names none
        I1 == [caused_by_deployment_id |-> Some(1), recovery_hours |-> Some(4)]
        I2 == [caused_by_deployment_id |-> Some(1), recovery_hours |-> None]
        I3 == [caused_by_deployment_id |-> Some(3), recovery_hours |-> Some(30)]
        I4 == [caused_by_deployment_id |-> Some(9), recovery_hours |-> Some(2)]
        I5 == [caused_by_deployment_id |-> None, recovery_hours |-> Some(1)]
        IncidentLists == {<<>>, <<I1>>, <<I1, I2>>, <<I2, I3, I1>>, <<I4, I5>>, <<I5, I3>>}
    IN  /\ hash_seed \in HashSeeds
        /\ pc = "engine_call"
        /\ stage = "engine"
        /\ \E cs \in SeqsUpTo(CommitRows, MaxCommits), ds \in DeploymentLists,
              is \in IncidentLists, prs \in {0, 2}, days \in Periods :
              state = [commits |-> cs, deployments |-> ds, incidents |-> is, prs |-> prs,
                       days |-> days, summary |-> None]
        /\ harvest_env = NoHarvestEnv
        /\ llm_env = NoLLMEnv
        /\ calls = NoCalls
        /\ fault = None
        /\ request = None

\* metrics_calculator.generate_performance_summary(..., days) on the rows of the scope
Summarize ==
    /\ pc \in {"engine_call", "engine_call_again"}
    /\ pc' = IF pc = "engine_call" THEN "summarized" ELSE "summarized_again"
    /\ LET churn_metrics == calculate_code_churn_metrics(state.commits)
           successful == SelectSeq(state.deployments, LAMBDA d : d.status = "success")
           \* _calculate_mttr: the mean over the resolved incidents, or 0.0
           resolved == SelectSeq(state.incidents, LAMBDA i : i.recovery_hours # None)
           recovery_times == [i \in 1..Len(resolved) |-> resolved[i].recovery_hours]
           mttr == IF Len(resolved) = 0 THEN RInt(0)
                   ELSE Rat(SumField(recovery_times, "v"), Len(resolved))
           m == [ commits |-> Len(state.commits), prs |-> state.prs,
                  lines_added   |-> SumField(state.commits, "additions"),
                  lines_deleted |-> SumField(state.commits, "deletions"),
                  files_changed |-> SumField(state.commits, "changed_files"),
                  lead_time_days |-> calculate_lead_time(state.commits, state.deployments),
                  successful_deployments |-> Len(successful),
                  change_failure_rate |->
                      calculate_change_failure_rate(state.deployments, state.incidents),
                  mttr_hours |-> mttr,
                  total_churn |-> churn_metrics.total_churn,
                  churn_rate |-> churn_metrics.churn_rate,
                  risk_score |-> churn_metrics.risk_score,
                  high_churn_files |-> churn_metrics.high_churn_files ]
       IN  state' = [state EXCEPT !.summary = generate_performance_summary(m, state.days)]
    /\ UNCHANGED <<stage, harvest_env, llm_env, calls, fault, hash_seed, request>>

\* the caller asks again, for a scope with other pull requests or another window
AskAgain ==
    /\ pc = "summarized"
    /\ pc' = "engine_call_again"
    /\ \E prs \in {0, 2}, days \in Periods :
          state' = [state EXCEPT !.prs = prs, !.days = days]
    /\ UNCHANGED <<stage, harvest_env, llm_env, calls, fault, hash_seed, request>>

EngineNext == Summarize \/ AskAgain

EngineSpec == EngineInit /\ [][EngineNext]_vars

\* C21 as stated: the summary lead time is the mean, over the commits that have a
\* later deployment of their repository, of the time to the earliest such
\* deployment, whatever the order of the deployments; 0 when no commit has one.
C21_LeadTimeToEarliest ==
    (stage = "engine" /\ pc \in {"summarized", "summarized_again"}) =>
        LET ds == state.deployments
            Later(c) == {ds[j].deployed_at : j \in {k \in 1..Len(ds) :
                            /\ ds[k].deployed_at > c.committed_at
                            /\ ds[k].repository_id = c.repository_id}}
            Earliest(c) == CHOOSE x \in Later(c) : \A y \in Later(c) : x <= y
            matched == SelectSeq(state.commits, LAMBDA c : Later(c) # {})
            waits == [i \in 1..Len(matched) |->
                        [days |-> Earliest(matched[i]) - matched[i].committed_at]]
        IN  REq(state.summary.dora_metrics.lead_time_days,
                IF Len(matched) = 0 THEN RInt(0)
                ELSE Rat(SumField(waits, "days"), Len(matched)))

\* C22: change_failure_rate is 100 times the number of deployments that some
\* incident names, each counted once, over the number of deployments; it lies in
\* [0, 100]; without deployments it is 0 and deployment_frequency is 0.
C22_ChangeFailureRate ==
    (stage = "engine" /\ pc \in {"summarized", "summarized_again"}) =>
        LET ds == state.deployments
            is == state.incidents
            named == {is[k].caused_by_deployment_id : k \in 1..Len(is)}
            failed_ids == {ds[j].id : j \in 1..Len(ds)} \cap {x.v : x \in named \ {None}}
            cfr == state.summary.dora_metrics.change_failure_rate
        IN  /\ Len(ds) > 0 =>
                  cfr.n * Len(ds) = 100 * Cardinality(failed_ids) * cfr.d
            /\ RGeInt(cfr, 0) /\ RLe(cfr, RInt(100))
            /\ Len(ds) = 0 =>
                  /\ REq(cfr, RInt(0))
                  /\ REq(state.summary.dora_metrics.deployment_frequency, RInt(0))

\* three deployments, two of them named by incidents, one of these twice
C22_Witness ==
    /\ stage = "engine" /\ pc = "summarized"
    /\ Len(state.deployments) = 3 /\ Len(state.incidents) = 3
    /\ state.summary.dora_metrics.change_failure_rate = Rat(200, 3)

\* C23: the churn risk score is min(100, churn_rate / 10 + 50 * large_commit_ratio)
\* with churn_rate the total churn per commit and large_commit_ratio the share of
\* commits of more than 300 lines; it is 0 without commits and lies in [0, 100].
C23_ChurnRiskScore ==
    (stage = "engine" /\ pc \in {"summarized", "summarized_again"}) =>
        LET cs == state.commits
            n == Len(cs)
            cq == state.summary.code_quality
            large == Cardinality({i \in 1..n : cs[i].additions + cs[i].deletions > 300})
            \* 10 * n * (churn_rate / 10 + 50 * large / n)
            scaled == RAdd(RMulInt(cq.churn_rate, n), RInt(500 * large))
        IN  /\ n = 0 => REq(cq.risk_score, RInt(0))
            /\ n > 0 =>
                  /\ cq.churn_rate.n * n = cq.total_churn * cq.churn_rate.d
                  /\ cq.total_churn = state.summary.basic_stats.lines_added
                                        + state.summary.basic_stats.lines_deleted
                  /\ IF RLe(scaled, RInt(1000 * n))
                     THEN REq(RMulInt(cq.risk_score, 10 * n), scaled)
                     ELSE REq(cq.risk_score, RInt(100))
            /\ RGeInt(cq.risk_score, 0) /\ RLe(cq.risk_score, RInt(100))

\* a commit of exactly 300 lines and one of 301: 300.5 / 10 + 50 / 2
C23_Witness ==
    /\ stage = "engine" /\ pc = "summarized"
    /\ Len(state.commits) = 2
    /\ state.commits[1].additions + state.commits[1].deletions = 300
    /\ state.commits[2].additions + state.commits[2].deletions = 301
    /\ state.summary.code_quality.risk_score = Rat(1101, 20)

\* C24 as stated: the four review fields have the same values for every scope and
\* window, so a second summary reports the review metrics of the first.
C24_OnePlaceholder ==
    [][(stage = "engine" /\ pc = "engine_call_again" /\ pc' = "summarized_again") =>
          state'.summary.review_metrics = state.summary.review_metrics]_vars

\* C24 amended: the engine returns the four review fields without failing, all 0
\* when the scope has no pull request in the window and 8.5, 85, 24 and 92 when it
\* has one or more, whatever else the scope and the window hold.
C24_PlaceholderByPullRequests ==
    (stage = "engine" /\ pc \in {"summarized", "summarized_again"}) =>
        LET rm == state.summary.review_metrics
        IN  /\ DOMAIN rm = {"avg_review_time_hours", "review_participation_rate",
                            "pr_cycle_time_hours", "approval_rate"}
            /\ state.prs = 0 => \A f \in DOMAIN rm : REq(rm[f], RInt(0))
            /\ state.prs > 0 =>
                  /\ REq(rm.avg_review_time_hours, Rat(17, 2))
                  /\ REq(rm.review_participation_rate, RInt(85))
                  /\ REq(rm.pr_cycle_time_hours, RInt(24))
                  /\ REq(rm.approval_rate, RInt(92))

\* a second summary, of a scope with commits and no pull request
C24_Witness ==
    /\ stage = "engine" /\ pc = "summarized_again"
    /\ state.prs = 0 /\ Len(state.commits) > 0
    /\ state.summary.review_metrics.review_participation_rate = RInt(0)

\* C25: with n >= 1 teams the aggregate's basic_stats fields, total_churn and
\* high_risk_files are the sums of the teams' values, and its dora_metrics fields,
\* churn_rate, risk_score and review_metrics fields are the sums divided by n; an
\* averaged percentage lies in [0, 100] when every team's value does.
C25_SumsAndAverages ==
    ( /\ stage = "process_request" /\ calls.harvest >= 1 /\ state.error = None
      /\ HarvestPath(state) = "overall" /\ Len(harvest_env.teams) >= 1 ) =>
        LET n == Len(harvest_env.teams)
            team == [i \in 1..n |->
                        generate_performance_summary(harvest_env.teams[i].m, state.time_period)]
            agg == state.raw_data
            TotalInt(c, f) ==
                LET S[k \in 0..n] == IF k = 0 THEN 0 ELSE S[k - 1] + team[k][c][f] IN S[n]
            Total(c, f) ==
                LET S[k \in 0..n] == IF k = 0 THEN RInt(0) ELSE RAdd(S[k - 1], team[k][c][f])
                IN  S[n]
            Averages ==
                ({"dora_metrics"} \X {"lead_time_days", "deployment_frequency",
                                      "change_failure_rate", "mttr_hours"})
                \cup ({"code_quality"} \X {"churn_rate", "risk_score"})
                \cup ({"review_metrics"} \X {"avg_review_time_hours", "review_participation_rate",
                                             "pr_cycle_time_hours", "approval_rate"})
            Percentages ==
                { <<"dora_metrics", "change_failure_rate">>, <<"code_quality", "risk_score">>,
                  <<"review_metrics", "review_participation_rate">>,
                  <<"review_metrics", "approval_rate">> }
        IN  /\ \A f \in {"total_commits", "total_pull_requests", "lines_added",
                          "lines_deleted", "files_changed"} :
                  agg.basic_stats[f] = TotalInt("basic_stats", f)
            /\ \A f \in {"total_churn", "high_risk_files"} :
                  agg.code_quality[f] = TotalInt("code_quality", f)
            /\ \A cf \in Averages :
                  REq(RMulInt(agg[cf[1]][cf[2]], n), Total(cf[1], cf[2]))
            /\ \A cf \in Percentages :
                  (\A i \in 1..n : RGeInt(team[i][cf[1]][cf[2]], 0)
                                     /\ RLe(team[i][cf[1]][cf[2]], RInt(100)))
                  => RGeInt(agg[cf[1]][cf[2]], 0) /\ RLe(agg[cf[1]][cf[2]], RInt(100))

\* two teams with different summaries: lead times 2 and 9, 14 and 2 commits
C25_Witness ==
    /\ stage = "process_request" /\ calls.harvest >= 1 /\ state.error = None
    /\ HarvestPath(state) = "overall" /\ Len(harvest_env.teams) = 2
    /\ state.raw_data.basic_stats.total_commits = 16
    /\ state.raw_data.dora_metrics.lead_time_days = Rat(11, 2)
    /\ state.raw_data.review_metrics.review_participation_rate = RInt(85)

\* C26 as stated: a provided engineer_id sends Harvest to the engine for that
\* engineer, else a provided team_id sends it to the engine for that team, and
\* only with neither provided is the Aggregator used, for every id value.
C26_ProvidedIdSelectsPath ==
    (stage = "process_request" /\ calls.harvest >= 1) =>
        LET engine_called == harvest_env.summary # NoSummary
            path == HarvestPath(state)
        IN  /\ request.engineer_id # None => (path = "engineer" /\ engine_called)
            /\ (request.engineer_id = None /\ request.team_id # None) =>
                  (path = "team" /\ engine_called)
            /\ (request.engineer_id = None /\ request.team_id = None) =>
                  (path = "overall" /\ ~engine_called)

\* C30 as stated: a request for an engineer or a team whose window holds no pull
\* request is never reported with the level LOW, and its identified_risks holds
\* the review-participation message.
C30_NoPullRequestsNeverLow ==
    ( /\ stage = "process_request" /\ state.analysis_results # None
      /\ (request.engineer_id # None \/ request.team_id # None)
      /\ state.raw_data.basic_stats.total_pull_requests = 0 ) =>
        LET ra == state.analysis_results.risk_assessment
        IN  /\ ra.overall_risk_level # "LOW"
            /\ \E i \in 1..Len(ra.identified_risks) : ra.identified_risks[i] = RiskReview

====
